---- MODULE Spec2Model ----
(***************************************************************************)
(* readrepeat worker: the sequential transcript aligner (worker/align.py)  *)
(* and the parallel sentence segmenter (worker/segment.py).                *)
(*                                                                         *)
(* Strings are sequences of one-character strings.  Python floats are      *)
(* modelled as exact rationals [n, d] in lowest terms (d > 0).  A time in  *)
(* seconds is an integer number of half-milliseconds, so that the          *)
(* conversion int(t * 1000) truncates.                                     *)
(***************************************************************************)
EXTENDS Integers, Sequences, FiniteSets, TLC

VARIABLES
    \* align_transcript_to_text
    sentences,          \* argument: list of raw sentence strings
    transcript_words,   \* argument: list of word dicts [word, start, end]
    similarity_threshold, \* argument: a float, 0.6 by default
    sent_idx,           \* position of the for loop (1-based), 0 before the call
    current_trans_idx,  \* the cursor (0-based index into the transcript)
    timings,            \* the list being built
    windows,            \* [start_idx, end_idx] found for each sentence so far (None: not matched)
    cursors,            \* the cursor after each sentence so far
    retA,               \* the returned list
    pcA,                \* "call" | "loop" | "done" | "idle"
    \* segment_parallel
    foreign_text, translation_text, foreign_lang, translation_lang, min_words,
    foreign_lines, trans_lines, line_idx,
    f_sents, t_sents, prev_f_count, prev_t_count, target,
    all_foreign, all_trans,
    seg_f, seg_t,       \* segment_text's output for the current line pair
    passes_f, passes_t, \* merge passes run by each loop on the current line pair
    retS,               \* the returned pair
    pcS,                \* "call" | "line" | "mergeF" | "mergeT" | "forceF" | "forceT" |
                        \* "extend" | "done" | "raised" | "idle"
    \* one call of a function of align.py or segment.py
    fn_args,            \* the arguments, a record
    fn_local,           \* the local variables of a function modelled step by step
    fn_ret,             \* the returned value
    pcF                 \* "call" | "loop" | "done" | "raised" | "idle", or the name of
                        \* the next step of process_lesson or JobHandler.handle

varsA == <<sentences, transcript_words, similarity_threshold, sent_idx, current_trans_idx, timings,
           windows, cursors, retA, pcA>>
varsS == <<foreign_text, translation_text, foreign_lang, translation_lang, min_words,
           foreign_lines, trans_lines, line_idx, f_sents, t_sents, prev_f_count,
           prev_t_count, target, all_foreign, all_trans, seg_f, seg_t,
           passes_f, passes_t, retS, pcS>>
varsF == <<fn_args, fn_local, fn_ret, pcF>>
vars == <<varsA, varsS, varsF>>

----------------------------------------------------------------------------
(* Bounds of the model *)

\* most sentences passed to one align_transcript_to_text call
MaxSentences == 2
\* most words in a transcript
MaxTranscript == 3
\* most lines in one text given to segment_parallel
MaxLines == 2
\* largest min_words given to segment_parallel
MaxMinWords == 3
\* longest text given to one segment_text call
MaxTextLen == 4
\* longest word given to one word_similarity call
MaxWordLen == 3
\* find_best_window: most filler words before the words of interest, most words of
\* interest, and the largest start_from
MaxLead == 7
MaxCore == 3
MaxStartFrom == 1
\* calculate_alignment_score: most words in the sentence and in the window
MaxScoreWords == 3
\* merge_short_sentences and _force_merge_to_count: longest list of sentences, and
\* the largest target
MaxListLen == 4
MaxTarget == 3

----------------------------------------------------------------------------
(* Characters and Python's str / re primitives *)

Min(a, b) == IF a <= b THEN a ELSE b
Max(a, b) == IF a >= b THEN a ELSE b

LowerLetters == {"a", "b", "d", "n", "o", "r"}
UpperLetters == {"A", "B", "D", "N"}
Whitespace == {" ", "\n", "\t"}

\* str.lower() on one character
LowerChar(c) ==
    CASE c = "A" -> "a"
      [] c = "B" -> "b"
      [] c = "D" -> "d"
      [] c = "N" -> "n"
      [] OTHER -> c

\* regex \w
IsWordChar(c) == c \in LowerLetters \cup UpperLetters \cup {"0", "1", "_"}
\* regex \s, str.isspace()
IsSpace(c) == c \in Whitespace
\* str.islower() / str.isalpha() on one character
IsLower(c) == c \in LowerLetters
IsAlpha(c) == c \in LowerLetters \cup UpperLetters

\* str.lower()
Lower(s) == [i \in 1..Len(s) |-> LowerChar(s[i])]

\* str.strip()
RECURSIVE LStrip(_)
LStrip(s) == IF s # <<>> /\ IsSpace(Head(s)) THEN LStrip(Tail(s)) ELSE s
RECURSIVE RStrip(_)
RStrip(s) ==
    IF s # <<>> /\ IsSpace(s[Len(s)]) THEN RStrip(SubSeq(s, 1, Len(s) - 1)) ELSE s
Strip(s) == LStrip(RStrip(s))

\* re.sub(r'\s+', ' ', s): every maximal run of whitespace becomes one space
RECURSIVE CollapseWs(_)
CollapseWs(s) ==
    IF s = <<>> THEN <<>>
    ELSE IF IsSpace(Head(s))
         THEN <<" ">> \o CollapseWs(LStrip(s))
         ELSE <<Head(s)>> \o CollapseWs(Tail(s))

\* str.split(): the maximal runs of non-whitespace
RECURSIVE SplitWords(_, _)
SplitWords(s, cur) ==
    IF s = <<>> THEN (IF cur = <<>> THEN <<>> ELSE <<cur>>)
    ELSE IF IsSpace(Head(s))
         THEN (IF cur = <<>> THEN <<>> ELSE <<cur>>) \o SplitWords(Tail(s), <<>>)
         ELSE SplitWords(Tail(s), Append(cur, Head(s)))
Split(s) == SplitWords(s, <<>>)

\* mutant: the two sentences are glued without a separator
JoinSpace_NoSeparator(s1, s2) == s1 \o s2

\* s1 + " " + s2
JoinSpace(s1, s2) == s1 \o <<" ">> \o s2

----------------------------------------------------------------------------
(* Float arithmetic, exact *)

RECURSIVE Gcd(_, _)
Gcd(a, b) == IF b = 0 THEN a ELSE Gcd(b, a % b)
Abs(x) == IF x < 0 THEN -x ELSE x

Rat(n, d) ==
    LET g == Gcd(Abs(n), d) IN [n |-> n \div g, d |-> d \div g]
RAdd(x, y) == Rat(x.n * y.d + y.n * x.d, x.d * y.d)
RMul(x, y) == Rat(x.n * y.n, x.d * y.d)
RLess(x, y) == x.n * y.d < y.n * x.d
RLeq(x, y) == x.n * y.d <= y.n * x.d

Zero == Rat(0, 1)
One == Rat(1, 1)

----------------------------------------------------------------------------
(* worker/align.py *)

\* Python's None, for start_idx / end_idx / best_idx (indices are >= 0)
None == -1

\* re.sub(r'[^\w\s]', '', text)
IsWordOrSpace(c) == IsWordChar(c) \/ IsSpace(c)

normalize_for_comparison(text) ==
    Strip(CollapseWs(SelectSeq(Lower(text), IsWordOrSpace)))

\* Levenshtein.distance: insertions, deletions and substitutions, each of cost 1
RECURSIVE Levenshtein(_, _)
Levenshtein(a, b) ==
    IF a = <<>> THEN Len(b)
    ELSE IF b = <<>> THEN Len(a)
    ELSE IF Head(a) = Head(b) THEN Levenshtein(Tail(a), Tail(b))
    ELSE 1 + Min(Levenshtein(Tail(a), b),
                 Min(Levenshtein(a, Tail(b)), Levenshtein(Tail(a), Tail(b))))

\* mutant: the distance is divided by the first word's length
Similarity_LenFirst(w1, w2) ==
    IF w1 = <<>> \/ w2 = <<>> THEN Zero
    ELSE Rat(Len(w1) - Levenshtein(w1, w2), Len(w1))

\* mutant: distance / max_len is returned, without the 1.0 -
Similarity_NoComplement(w1, w2) ==
    IF w1 = <<>> \/ w2 = <<>> THEN Zero
    ELSE IF Max(Len(w1), Len(w2)) = 0 THEN One
    ELSE Rat(Levenshtein(w1, w2), Max(Len(w1), Len(w2)))

\* lines 29-37, on the normalized forms
Similarity(w1, w2) ==
    IF w1 = <<>> \/ w2 = <<>> THEN Zero
    ELSE IF Max(Len(w1), Len(w2)) = 0 THEN One
    ELSE Rat(Max(Len(w1), Len(w2)) - Levenshtein(w1, w2), Max(Len(w1), Len(w2)))

word_similarity(word1, word2) ==
    LET w1 == normalize_for_comparison(word1)
        w2 == normalize_for_comparison(word2)
    IN  Similarity(w1, w2)

\* re.sub(r'[^\w\s\']', ' ', text) on one character
TokenChar(c) == IF IsWordChar(c) \/ IsSpace(c) \/ c = "'" THEN c ELSE " "

tokenize_for_alignment(text) ==
    LET lowered == Lower(text)
        spaced == [i \in 1..Len(lowered) |-> TokenChar(lowered[i])]
    IN  Split(Strip(CollapseWs(spaced)))

\* line 208-210: keep the better of the best so far and window word i
BetterMatch(best, sim, i) ==
    IF RLess(best.sim, sim) THEN [sim |-> sim, idx |-> i] ELSE best

\* the inner for loop of calculate_alignment_score (lines 203-210) over the window,
\* from 0-based index i on: the best unused window word for sentence word sw
RECURSIVE ScanWindow(_, _, _, _, _)
ScanWindow(sw, trans_words, used_trans, i, best) ==
    IF i >= Len(trans_words) THEN best
    ELSE IF i \in used_trans THEN ScanWindow(sw, trans_words, used_trans, i + 1, best)
    ELSE CHOOSE r \in
             { ScanWindow(sw, trans_words, used_trans, i + 1, b) :
               b \in { BetterMatch(best, word_similarity(sw, trans_words[i + 1]), i) } } :
             TRUE

\* mutant: a similarity of exactly 0.5 counts as a match
TakeMatch_AtLeastHalf(acc, best) ==
    IF best.idx >= 0 /\ RLeq(Rat(1, 2), best.sim)
    THEN [total_sim |-> RAdd(acc.total_sim, best.sim),
          matched |-> acc.matched + 1,
          used_trans |-> acc.used_trans \cup {best.idx}]
    ELSE acc

\* lines 212-215: count the match if it is good enough
TakeMatch(acc, best) ==
    IF best.idx >= 0 /\ RLess(Rat(1, 2), best.sim)
    THEN [total_sim |-> RAdd(acc.total_sim, best.sim),
          matched |-> acc.matched + 1,
          used_trans |-> acc.used_trans \cup {best.idx}]
    ELSE acc

\* the outer for loop of calculate_alignment_score (lines 199-215), from sentence
\* word k (1-based) on
RECURSIVE GreedyMatch(_, _, _, _)
GreedyMatch(sent_words, trans_words, k, acc) ==
    IF k > Len(sent_words) THEN acc
    ELSE CHOOSE r \in
             { GreedyMatch(sent_words, trans_words, k + 1, m) :
               m \in { TakeMatch(acc, ScanWindow(sent_words[k], trans_words,
                                                 acc.used_trans, 0,
                                                 [sim |-> Zero, idx |-> None])) } } : TRUE

\* lines 225-226
SizePenalty(size_ratio) ==
    IF RLeq(Rat(1, 2), size_ratio) /\ RLeq(size_ratio, Rat(2, 1))
    THEN One ELSE Rat(4, 5)

\* lines 221-228
ScoreOf(m, n, window_len) ==
    RMul(RAdd(RMul(Rat(m.matched, n), Rat(1, 2)),
              RMul(RMul(m.total_sim, Rat(1, n)), Rat(1, 2))),
         SizePenalty(Rat(window_len, n)))

calculate_alignment_score(sent_words, trans_words) ==
    IF sent_words = <<>> \/ trans_words = <<>> THEN Zero
    ELSE ScoreOf(GreedyMatch(sent_words, trans_words, 1,
                     [total_sim |-> Zero, matched |-> 0, used_trans |-> {}]),
                 Len(sent_words), Len(trans_words))

\* mutant: round(seconds * 1000) instead of int(seconds * 1000)
ToMs_Round(t) == (t + 1) \div 2

\* int(seconds * 1000), seconds given in half-milliseconds: truncates toward zero
ToMs(t) == IF t >= 0 THEN t \div 2 ELSE -((-t) \div 2)

\* mutant: score >= best_score, so that a later window wins a tie
BetterWindow_GE(best, score, start_pos, end_pos) ==
    IF RLeq(best.score, score)
    THEN [score |-> score, start |-> start_pos, end |-> end_pos]
    ELSE best

\* mutant: at the same start position a longer window wins a tie
BetterWindow_LongerOnTie(best, score, start_pos, end_pos) ==
    IF RLess(best.score, score) \/ (best.score = score /\ best.start = start_pos)
    THEN [score |-> score, start |-> start_pos, end |-> end_pos]
    ELSE best

\* lines 164-167: a window replaces the best one only if it scores strictly higher
BetterWindow(best, score, start_pos, end_pos) ==
    IF RLess(best.score, score)
    THEN [score |-> score, start |-> start_pos, end |-> end_pos]
    ELSE best

\* the window-size loop of find_best_window (lines 154-167) for one start_pos
RECURSIVE SizeLoop(_, _, _, _, _, _)
SizeLoop(sent_words, trans_words, start_pos, window_size, last_size, best) ==
    IF window_size > last_size \/ start_pos + window_size - 1 >= Len(trans_words)
    THEN best
    ELSE \* b is the value of best after this iteration (the singleton evaluates it
         \* before the next iteration)
         CHOOSE r \in
             { SizeLoop(sent_words, trans_words, start_pos, window_size + 1, last_size, b) :
               b \in { BetterWindow(best,
                           calculate_alignment_score(sent_words,
                               SubSeq(trans_words, start_pos + 1, start_pos + window_size)),
                           start_pos, start_pos + window_size - 1) } } : TRUE

\* the start-position loop of find_best_window (lines 152-167)
RECURSIVE StartLoop(_, _, _, _, _)
StartLoop(sent_words, trans_words, start_pos, stop, best) ==
    IF start_pos >= stop THEN best
    ELSE CHOOSE r \in
             { StartLoop(sent_words, trans_words, start_pos + 1, stop, b) :
               b \in { SizeLoop(sent_words, trans_words, start_pos,
                                Max(1, Len(sent_words) - 2), Len(sent_words) * 2 + 2,
                                best) } } : TRUE

NoWindow ==
    [start_idx |-> None, end_idx |-> None, start_ms |-> 0, end_ms |-> 0,
     confidence |-> Zero]

\* mutant: the score < 0.3 test is dropped
WindowResult_NoThreshold(best, transcript) ==
    IF best.start = None THEN NoWindow
    ELSE [start_idx |-> best.start,
          end_idx |-> best.end,
          start_ms |-> ToMs(transcript[best.start + 1].start),
          end_ms |-> ToMs(transcript[best.end + 1].end),
          confidence |-> best.score]

\* lines 169-178
WindowResult(best, transcript) ==
    IF best.start = None \/ RLess(best.score, Rat(3, 10)) THEN NoWindow
    ELSE [start_idx |-> best.start,
          end_idx |-> best.end,
          start_ms |-> ToMs(transcript[best.start + 1].start),
          end_ms |-> ToMs(transcript[best.end + 1].end),
          confidence |-> best.score]

\* line 149
SearchEnd(n_sent, n_trans, start_from) == Min(start_from + n_sent * 3 + 10, n_trans)

\* mutant: one more start position is tried
StartStop_Wider(n_sent, n_trans, start_from) ==
    Min(start_from + n_sent + 6, SearchEnd(n_sent, n_trans, start_from))

\* line 152: the end (exclusive) of the range of start positions
StartStop(n_sent, n_trans, start_from) ==
    Min(start_from + n_sent + 5, SearchEnd(n_sent, n_trans, start_from))

\* mutant: the search starts at the first transcript word
FirstStart_Zero(start_from) == 0

\* line 152: the first start position
FirstStart(start_from) == start_from

find_best_window(sent_words, trans_words, transcript, start_from) ==
    IF start_from >= Len(trans_words) THEN NoWindow
    ELSE WindowResult(
             StartLoop(sent_words, trans_words, FirstStart(start_from),
                 StartStop(Len(sent_words), Len(trans_words), start_from),
                 [score |-> Rat(-1, 1), start |-> None, end |-> None]),
             transcript)

\* mutant: an empty transcript returns no timings at all
EmptyTranscriptResult_Empty(sents) == <<>>

\* line 72: the result for an empty transcript
ZeroTiming == [start_ms |-> 0, end_ms |-> 0, confidence |-> Zero]
EmptyTranscriptResult(sents) == [i \in 1..Len(sents) |-> ZeroTiming]

\* mutant: the empty-sentence branch continues without appending a timing
EmptySentenceTimings_Skip(tim) == tim

\* lines 88-90: a sentence with no words
EmptySentenceTimings(tim) == Append(tim, ZeroTiming)

\* lines 101-105
MatchedTiming(best_result) ==
    [start_ms |-> best_result.start_ms,
     end_ms |-> best_result.end_ms,
     confidence |-> best_result.confidence]

\* mutant: the cursor stays on the last word of the window
NextCursor_NoAdvance(best_result) == best_result.end_idx

\* line 107
NextCursor(best_result) == best_result.end_idx + 1

\* mutant: a failed sentence always starts at 0
PrevEnd_Zero(tim) == 0

\* line 110
PrevEnd(tim) == IF tim # <<>> THEN tim[Len(tim)].end_ms ELSE 0

\* lines 111-115
FailedTiming(tim) ==
    [start_ms |-> PrevEnd(tim), end_ms |-> PrevEnd(tim), confidence |-> Zero]

\* line 81
TransWords(transcript) == [i \in 1..Len(transcript) |-> transcript[i].word]

\* lines 100-115: the timing, cursor and window after a window search
AfterSearch(best_result, tim, cursor) ==
    IF best_result.start_idx # None
    THEN [timings |-> Append(tim, MatchedTiming(best_result)),
          cursor |-> NextCursor(best_result),
          window |-> [start_idx |-> best_result.start_idx,
                      end_idx |-> best_result.end_idx]]
    ELSE [timings |-> Append(tim, FailedTiming(tim)),
          cursor |-> cursor,
          window |-> [start_idx |-> None, end_idx |-> None]]

\* one iteration of the for loop (lines 87-115)
LoopBody(sent_words, transcript, tim, cursor) ==
    IF sent_words = <<>>
    THEN [timings |-> EmptySentenceTimings(tim), cursor |-> cursor,
          window |-> [start_idx |-> None, end_idx |-> None]]
    ELSE AfterSearch(
             find_best_window(sent_words, TransWords(transcript), transcript, cursor),
             tim, cursor)

(* Inputs *)

\* raw sentences: "Ab a." (two words), "a", "." (no word), "b'" (apostrophe kept)
SentencePool ==
    { <<"A", "b", " ", "a", ".">>, <<"a">>, <<".">>, <<"b", "'">> }

\* raw transcript words: "ab", "a", "B."
WordPool == { <<"a", "b">>, <<"a">>, <<"B", ".">> }

\* word times in half-milliseconds for word i (0-based) of m:
\*   "seq"       sorted, start <= end, disjoint
\*   "overlap"   sorted, start <= end, each word overlaps the next
\*   "inverted"  end < start
\*   "unsorted"  start times decreasing
TimePatterns == {"seq", "overlap", "inverted", "unsorted"}
WordStart(pat, i, m) ==
    CASE pat = "seq" -> 3 * i + 1
      [] pat = "overlap" -> 2 * i
      [] pat = "inverted" -> 3 * i + 2
      [] OTHER -> 3 * (m - 1 - i) + 1
WordEnd(pat, i, m) ==
    CASE pat = "seq" -> 3 * i + 3
      [] pat = "overlap" -> 2 * i + 5
      [] pat = "inverted" -> 3 * i
      [] OTHER -> 3 * (m - 1 - i) + 3

SeqsUpTo(S, n) == UNION { [1..k -> S] : k \in 0..n }

Transcripts ==
    { [i \in 1..Len(ws) |->
          [word |-> ws[i],
           start |-> WordStart(pat, i - 1, Len(ws)),
           end |-> WordEnd(pat, i - 1, Len(ws))]] :
      ws \in SeqsUpTo(WordPool, MaxTranscript), pat \in TimePatterns }

\* no single function call is under way
IdleF == fn_args = <<>> /\ fn_local = <<>> /\ fn_ret = <<>> /\ pcF = "idle"

IdleS ==
    /\ foreign_text = <<>> /\ translation_text = <<>>
    /\ foreign_lang = "en" /\ translation_lang = "en" /\ min_words = 0
    /\ foreign_lines = <<>> /\ trans_lines = <<>> /\ line_idx = 0
    /\ f_sents = <<>> /\ t_sents = <<>> /\ prev_f_count = 0 /\ prev_t_count = 0
    /\ target = 0 /\ all_foreign = <<>> /\ all_trans = <<>>
    /\ seg_f = <<>> /\ seg_t = <<>> /\ passes_f = 0 /\ passes_t = 0
    /\ retS = <<>> /\ pcS = "idle"

\* line 52: similarity_threshold: float = 0.6
DefaultThreshold == Rat(3, 5)

InitAlign ==
    /\ sentences \in SeqsUpTo(SentencePool, MaxSentences)
    /\ transcript_words \in Transcripts
    /\ similarity_threshold = DefaultThreshold
    /\ sent_idx = 0 /\ current_trans_idx = 0
    /\ timings = <<>> /\ windows = <<>> /\ cursors = <<>>
    /\ retA = <<>> /\ pcA = "call"
    /\ IdleS /\ IdleF

(* align_transcript_to_text, lines 70-72 *)
AlignEmptyTranscript ==
    /\ pcA = "call"
    /\ transcript_words = <<>>
    /\ retA' = EmptyTranscriptResult(sentences)
    /\ pcA' = "done"
    /\ UNCHANGED <<sentences, transcript_words, similarity_threshold, sent_idx, current_trans_idx,
                   timings, windows, cursors>>
    /\ UNCHANGED <<varsS, varsF>>

(* lines 74-75 *)
AlignNoSentences ==
    /\ pcA = "call"
    /\ transcript_words # <<>>
    /\ sentences = <<>>
    /\ retA' = <<>>
    /\ pcA' = "done"
    /\ UNCHANGED <<sentences, transcript_words, similarity_threshold, sent_idx, current_trans_idx,
                   timings, windows, cursors>>
    /\ UNCHANGED <<varsS, varsF>>

(* lines 77-85 *)
AlignEnterLoop ==
    /\ pcA = "call"
    /\ transcript_words # <<>>
    /\ sentences # <<>>
    /\ timings' = <<>>
    /\ current_trans_idx' = 0
    /\ sent_idx' = 1
    /\ pcA' = "loop"
    /\ UNCHANGED <<sentences, transcript_words, similarity_threshold, windows, cursors, retA>>
    /\ UNCHANGED <<varsS, varsF>>

\* the loop variables after one iteration with outcome r
StepResult(r) ==
    /\ timings' = r.timings
    /\ current_trans_idx' = r.cursor
    /\ windows' = Append(windows, r.window)
    /\ cursors' = Append(cursors, r.cursor)

(* lines 87-115: one sentence *)
AlignStep ==
    /\ pcA = "loop"
    /\ sent_idx <= Len(sentences)
    /\ StepResult(LoopBody(tokenize_for_alignment(sentences[sent_idx]),
                           transcript_words, timings, current_trans_idx))
    /\ sent_idx' = sent_idx + 1
    /\ UNCHANGED <<sentences, transcript_words, similarity_threshold, retA, pcA>>
    /\ UNCHANGED <<varsS, varsF>>

(* line 117 *)
AlignReturn ==
    /\ pcA = "loop"
    /\ sent_idx > Len(sentences)
    /\ retA' = timings
    /\ pcA' = "done"
    /\ UNCHANGED <<sentences, transcript_words, similarity_threshold, sent_idx, current_trans_idx,
                   timings, windows, cursors>>
    /\ UNCHANGED <<varsS, varsF>>

NextAlign ==
    \/ AlignEmptyTranscript
    \/ AlignNoSentences
    \/ AlignEnterLoop
    \/ AlignStep
    \/ AlignReturn

SpecAlign == InitAlign /\ [][NextAlign]_vars


----------------------------------------------------------------------------
(* Properties of align_transcript_to_text *)

Tokens(i) == tokenize_for_alignment(sentences[i])
Matched(i) == windows[i].start_idx # None
CursorBefore(i) == IF i = 1 THEN 0 ELSE cursors[i - 1]

\* C1: align_transcript_to_text returns exactly one timing per input sentence, in
\* sentence order (after k loop iterations the list holds k timings), whatever the
\* transcript and the sentences are.
C1_OneTimingPerSentence ==
    /\ pcA = "done" => Len(retA) = Len(sentences)
    /\ pcA = "loop" => Len(timings) = sent_idx - 1

C1_Witness ==
    /\ pcA = "done"
    /\ transcript_words # <<>>
    /\ Len(retA) >= 2
    /\ \E i \in 1..Len(sentences) : Tokens(i) = <<>>
    /\ \E j \in 1..Len(sentences) : Tokens(j) # <<>> /\ ~Matched(j)

\* C2: the cursor starts at 0 and never decreases from one sentence to the next, and
\* for two matched sentences i < j the window of j starts after the window of i
\* ends: startIdx(j) >= endIdx(i) + 1.
C2_CursorForward ==
    /\ (pcA = "loop" /\ sent_idx = 1) => current_trans_idx = 0
    /\ \A i \in 1..Len(cursors) : cursors[i] >= CursorBefore(i)
    /\ \A i, j \in 1..Len(windows) :
           (i < j /\ Matched(i) /\ Matched(j))
               => windows[j].start_idx >= windows[i].end_idx + 1

C2_Witness ==
    \E i, j \in 1..Len(windows) :
        /\ i < j /\ Matched(i) /\ Matched(j)
        /\ windows[i].end_idx > windows[i].start_idx
        /\ windows[j].start_idx = windows[i].end_idx + 1

\* C4: a timing has confidence 0.0 exactly when its sentence was not matched (empty
\* transcript, no tokens, or failed window search), and every matched timing has a
\* confidence in [0.3, 1.0].
C4_ConfidenceSentinel ==
    /\ \A i \in 1..Len(timings) :
           /\ (timings[i].confidence.n = 0) <=> ~Matched(i)
           /\ Matched(i) => /\ RLeq(Rat(3, 10), timings[i].confidence)
                            /\ RLeq(timings[i].confidence, Rat(1, 1))
    /\ (pcA = "done" /\ transcript_words = <<>>)
           => \A i \in 1..Len(retA) : retA[i].confidence.n = 0
    /\ (pcA = "done" /\ transcript_words # <<>>) => retA = timings

C4_Witness ==
    /\ pcA = "done"
    /\ \E i \in 1..Len(timings) :
           Matched(i) /\ RLess(retA[i].confidence, Rat(1, 1))
    /\ \E j \in 1..Len(timings) : Tokens(j) # <<>> /\ ~Matched(j)

\* C5: with an empty transcript the result is the timing {0, 0, 0.0} for each
\* sentence, and with an empty sentence list the result is the empty list.
C5_EmptyInputs ==
    pcA = "done" =>
        /\ transcript_words = <<>> =>
               /\ Len(retA) = Len(sentences)
               /\ \A i \in 1..Len(retA) :
                      retA[i] = [start_ms |-> 0, end_ms |-> 0,
                                 confidence |-> [n |-> 0, d |-> 1]]
        /\ sentences = <<>> => retA = <<>>

C5_Witness ==
    pcA = "done" /\ transcript_words = <<>> /\ Len(sentences) >= 2 /\ Len(retA) >= 2

\* C6: a sentence that is not matched leaves the cursor where it was; one without
\* tokens emits {0, 0, 0.0}, one whose search fails emits start_ms = end_ms = the
\* previous timing's end_ms (0 for the first sentence) with confidence 0.0.
C6_UnmatchedKeepsCursor ==
    /\ \A i \in 1..Len(windows) :
           ~Matched(i) =>
               /\ cursors[i] = CursorBefore(i)
               /\ Tokens(i) = <<>> =>
                      timings[i] = [start_ms |-> 0, end_ms |-> 0,
                                    confidence |-> [n |-> 0, d |-> 1]]
               /\ Tokens(i) # <<>> =>
                      /\ timings[i].start_ms = (IF i = 1 THEN 0 ELSE timings[i - 1].end_ms)
                      /\ timings[i].end_ms = timings[i].start_ms
                      /\ timings[i].confidence = [n |-> 0, d |-> 1]
    /\ (pcA = "loop" /\ cursors # <<>>) => current_trans_idx = cursors[Len(cursors)]

C6_Witness ==
    \E i \in 2..Len(windows) :
        /\ Tokens(i) # <<>> /\ ~Matched(i)
        /\ Matched(i - 1) /\ timings[i - 1].end_ms > 0
        /\ timings[i].start_ms = timings[i - 1].end_ms

\* the transcript's precondition: 0 <= start <= end, ordered by start
ValidTranscript ==
    /\ \A i \in 1..Len(transcript_words) :
           0 <= transcript_words[i].start
           /\ transcript_words[i].start <= transcript_words[i].end
    /\ \A i \in 1..(Len(transcript_words) - 1) :
           transcript_words[i].start <= transcript_words[i + 1].start

\* ms = floor(1000 * seconds), the time t being seconds in half-milliseconds
IsFloorMs(ms, t) == 2 * ms <= t /\ t < 2 * ms + 2

\* C7: on a transcript with 0 <= start <= end ordered by start, every timing has
\* 0 <= start_ms <= end_ms; a matched sentence gets start_ms = floor(1000 * start of
\* word startIdx), end_ms = floor(1000 * end of word endIdx), and the cursor becomes
\* endIdx + 1.
C7_TimingsOrdered ==
    ValidTranscript =>
        /\ \A i \in 1..Len(timings) :
               /\ 0 <= timings[i].start_ms
               /\ timings[i].start_ms <= timings[i].end_ms
               /\ Matched(i) =>
                      /\ IsFloorMs(timings[i].start_ms,
                                   transcript_words[windows[i].start_idx + 1].start)
                      /\ IsFloorMs(timings[i].end_ms,
                                   transcript_words[windows[i].end_idx + 1].end)
                      /\ cursors[i] = windows[i].end_idx + 1
        /\ pcA = "done" =>
               \A i \in 1..Len(retA) :
                   0 <= retA[i].start_ms /\ retA[i].start_ms <= retA[i].end_ms

C7_Witness ==
    /\ ValidTranscript
    /\ \E i \in 1..Len(timings) :
           /\ Matched(i)
           /\ transcript_words[windows[i].start_idx + 1].start % 2 = 1
           /\ timings[i].start_ms < timings[i].end_ms
           /\ windows[i].start_idx > 0

\* the tokens of sentences 1..k, concatenated
RECURSIVE ConcatTokens(_)
ConcatTokens(k) == IF k = 0 THEN <<>> ELSE ConcatTokens(k - 1) \o Tokens(k)

\* the transcript is the sentences' tokens in order, every token has a non-empty
\* normalized form, and the words' time intervals do not overlap
ExactTranscript ==
    /\ TransWords(transcript_words) = ConcatTokens(Len(sentences))
    /\ \A i \in 1..Len(transcript_words) :
           normalize_for_comparison(transcript_words[i].word) # <<>>
    /\ \A i \in 1..Len(transcript_words) :
           transcript_words[i].start <= transcript_words[i].end
    /\ \A i \in 1..(Len(transcript_words) - 1) :
           transcript_words[i].end <= transcript_words[i + 1].start

\* every sentence is matched to its own token span with confidence 1.0, and the
\* timings do not overlap
OwnSpans ==
    /\ Len(windows) = Len(sentences)
    /\ \A i \in 1..Len(sentences) :
           /\ windows[i].start_idx = Len(ConcatTokens(i - 1))
           /\ windows[i].end_idx = Len(ConcatTokens(i)) - 1
           /\ windows[i].start_idx <= windows[i].end_idx
           /\ retA[i].confidence = [n |-> 1, d |-> 1]
    /\ \A i \in 1..(Len(sentences) - 1) : retA[i].end_ms <= retA[i + 1].start_ms

\* C8 as stated: when the transcript is exactly the sentences' tokens in order, with
\* disjoint word intervals, every sentence is matched to its own token span with
\* confidence 1.0 and end_ms of sentence i <= start_ms of sentence i+1.
C8_AsStated == (pcA = "done" /\ ExactTranscript) => OwnSpans

\* C8, amended: the same, for sentence lists in which every sentence has at least
\* one token.
C8_ExactMatch ==
    (pcA = "done" /\ ExactTranscript
        /\ \A i \in 1..Len(sentences) : Tokens(i) # <<>>) => OwnSpans

C8_Witness ==
    /\ pcA = "done" /\ ExactTranscript
    /\ \A i \in 1..Len(sentences) : Tokens(i) # <<>>
    /\ Len(sentences) >= 2 /\ Len(transcript_words) >= 3
    /\ OwnSpans


----------------------------------------------------------------------------
(* worker/segment.py *)

\* Characters outside ASCII are written by their code point:
\* "u3002" is the ideographic full stop, "uFF01" and "uFF1F" the fullwidth ! and ?,
\* "u00A1" and "u00BF" the inverted ! and ?.
AsciiEndings == {".", "!", "?"}
CjkEndings == {"u3002", "uFF01", "uFF1F"}

\* SENTENCE_ENDINGS.get(lang, SENTENCE_ENDINGS['default']): the characters of the class
SentenceEndings(lang) ==
    CASE lang = "en" -> AsciiEndings
      [] lang = "zh" -> CjkEndings
      [] lang = "ja" -> CjkEndings
      [] lang = "ko" -> CjkEndings \cup AsciiEndings
      [] lang = "es" -> AsciiEndings \cup {"u00A1", "u00BF"}
      [] lang = "fr" -> AsciiEndings
      [] lang = "de" -> AsciiEndings
      [] OTHER -> AsciiEndings \cup CjkEndings

\* ABBREVIATIONS.get(lang, ABBREVIATIONS['default'])
Abbreviations(lang) ==
    IF lang = "en"
    THEN { <<"m", "r">>, <<"m", "r", "s">>, <<"m", "s">>, <<"d", "r">>,
           <<"p", "r", "o", "f">>, <<"s", "r">>, <<"j", "r">>, <<"v", "s">>,
           <<"e", "t", "c">>, <<"e", ".", "g">>, <<"i", ".", "e">>, <<"n", "o">>,
           <<"v", "o", "l">> }
    ELSE {}

\* the length of the run of characters of T that s starts with
RECURSIVE RunLen(_, _)
RunLen(s, T) == IF s # <<>> /\ Head(s) \in T THEN 1 + RunLen(Tail(s), T) ELSE 0

\* re.split(f'({pattern})', text): text, run, text, run, ..., text (texts may be '')
RECURSIVE ReSplitFrom(_, _, _)
ReSplitFrom(s, T, cur) ==
    IF s = <<>> THEN <<cur>>
    ELSE IF Head(s) \in T
         THEN <<cur, SubSeq(s, 1, RunLen(s, T))>>
              \o ReSplitFrom(SubSeq(s, RunLen(s, T) + 1, Len(s)), T, <<>>)
         ELSE ReSplitFrom(Tail(s), T, Append(cur, Head(s)))

\* mutant: the pattern has no capture group, the split drops the runs
ReSplit_NoGroup(s, T) == SelectSeq(ReSplitFrom(s, T, <<>>), LAMBDA p : p = <<>> \/ Head(p) \notin T)

ReSplit(s, T) == ReSplitFrom(s, T, <<>>)

\* mutant: only a single terminator character is an ending
IsEnding_Single(part, T) == Len(part) = 1 /\ Head(part) \in T

\* re.match(pattern, part) for a part of the split
IsEnding(part, T) == part # <<>> /\ Head(part) \in T

\* mutant: the sentence is appended without the test of current.strip()
AppendStripped_Always(sents, current) == Append(sents, Strip(current))

\* lines 73-75 and 78-79: sentences.append(current.strip()) if current.strip()
AppendStripped(sents, current) ==
    IF Strip(current) # <<>> THEN Append(sents, Strip(current)) ELSE sents

\* the for loop of _segment_cjk (lines 65-75), from part k (1-based) on
RECURSIVE CjkLoop(_, _, _, _, _)
CjkLoop(parts, T, k, sents, current) ==
    IF k > Len(parts) THEN AppendStripped(sents, current)
    ELSE IF parts[k] = <<>> THEN CjkLoop(parts, T, k + 1, sents, current)
    ELSE IF IsEnding(parts[k], T)
         THEN CjkLoop(parts, T, k + 1, AppendStripped(sents, current \o parts[k]), <<>>)
         ELSE CjkLoop(parts, T, k + 1, sents, current \o parts[k])

_segment_cjk(text, T) == CjkLoop(ReSplit(text, T), T, 1, <<>>, <<>>)

\* str.rstrip('.!?')
RECURSIVE RStripEndings(_)
RStripEndings(w) ==
    IF w # <<>> /\ w[Len(w)] \in {".", "!", "?"}
    THEN RStripEndings(SubSeq(w, 1, Len(w) - 1)) ELSE w

\* line 113
IsAbbrevWord(last_word, abbrevs) ==
    last_word \in abbrevs \/ (Len(last_word) = 1 /\ IsAlpha(last_word[1]))

\* lines 109-114, on words = current.lower().split()
IsAbbrev(words, abbrevs) ==
    words # <<>> /\ IsAbbrevWord(RStripEndings(words[Len(words)]), abbrevs)

\* lines 117-118, on next_part.strip()
StartsLower(stripped) == stripped # <<>> /\ IsLower(stripped[1])
NextStartsLower(parts, k) ==
    StartsLower(Strip(IF k + 1 <= Len(parts) THEN parts[k + 1] ELSE <<>>))

\* line 120
EndsSentence(parts, k, current, abbrevs) ==
    /\ ~IsAbbrev(Split(Lower(current)), abbrevs)
    /\ ~NextStartsLower(parts, k)
    /\ Strip(current) # <<>>

\* the while loop of _segment_western (lines 97-126), from part k (1-based) on
RECURSIVE WesternLoop(_, _, _, _, _, _)
WesternLoop(parts, T, abbrevs, k, sents, current) ==
    IF k > Len(parts) THEN AppendStripped(sents, current)
    ELSE IF parts[k] = <<>> THEN WesternLoop(parts, T, abbrevs, k + 1, sents, current)
    ELSE IF IsEnding(parts[k], T)
         THEN IF EndsSentence(parts, k, current \o parts[k], abbrevs)
              THEN WesternLoop(parts, T, abbrevs, k + 1,
                               Append(sents, Strip(current \o parts[k])), <<>>)
              ELSE WesternLoop(parts, T, abbrevs, k + 1, sents, current \o parts[k])
         ELSE WesternLoop(parts, T, abbrevs, k + 1, sents, current \o parts[k])

_segment_western(text, T, lang) ==
    WesternLoop(ReSplit(text, T), T, Abbreviations(lang), 1, <<>>, <<>>)

\* re.sub(r'\n+', ' ', text)
RECURSIVE NewlinesToSpace(_)
NewlinesToSpace(s) ==
    IF s = <<>> THEN <<>>
    ELSE IF Head(s) = "\n"
         THEN <<" ">> \o NewlinesToSpace(SubSeq(s, RunLen(s, {"\n"}) + 1, Len(s)))
         ELSE <<Head(s)>> \o NewlinesToSpace(Tail(s))

\* lines 43-54, on the normalized text
SegmentNormalized(text, lang) ==
    IF text = <<>> THEN <<>>
    ELSE IF lang \in {"zh", "ja"} THEN _segment_cjk(text, SentenceEndings(lang))
    ELSE _segment_western(text, SentenceEndings(lang), lang)

segment_text(text, lang) ==
    SegmentNormalized(CollapseWs(Strip(NewlinesToSpace(text))), lang)

\* mutant: the characters are counted
WordCount_Chars(sent) == Len(sent)

\* len(sent.split())
WordCount(sent) == Len(Split(sent))

\* the while loop of merge_short_sentences (lines 154-163), from index i (0-based)
\* on; sents is the argument list, which the loop writes to
RECURSIVE MergeLoop(_, _, _, _)
MergeLoop(sents, minw, i, result) ==
    IF i >= Len(sents) THEN result
    ELSE IF WordCount(sents[i + 1]) < minw /\ i + 1 < Len(sents)
         THEN MergeLoop([sents EXCEPT ![i + 2] = JoinSpace(sents[i + 1], sents[i + 2])],
                        minw, i + 1, result)
         ELSE MergeLoop(sents, minw, i + 1, Append(result, sents[i + 1]))

\* mutant: one call merges only the last short sentence into its successor
merge_short_sentences_LastPair(sents, minw) ==
    LET short == { i \in 1..(Len(sents) - 1) : WordCount(sents[i]) < minw } IN
    IF short = {} THEN sents
    ELSE LET i == CHOOSE i \in short : \A j \in short : i >= j IN
         SubSeq(sents, 1, i - 1) \o <<JoinSpace(sents[i], sents[i + 1])>>
         \o SubSeq(sents, i + 2, Len(sents))

merge_short_sentences(sents, minw) ==
    IF Len(sents) <= 1 THEN sents ELSE MergeLoop(sents, minw, 0, <<>>)

\* lines 189-194: the 0-based index of the first shortest sentence of
\* sentences[:-1], scanned from index i on (min_idx = 0 when there is none);
\* min_len = None stands for float('inf')
RECURSIVE ForceScan(_, _, _, _, _)
ForceScan(sents, stop, i, min_len, min_idx) ==
    IF i >= stop THEN min_idx
    ELSE IF min_len = None \/ Len(sents[i + 1]) < min_len
         THEN ForceScan(sents, stop, i + 1, Len(sents[i + 1]), i)
         ELSE ForceScan(sents, stop, i + 1, min_len, min_idx)

\* mutant: the scan runs over all of sentences, the last one included
ForceMinIdx_All(sents) == ForceScan(sents, Len(sents), 0, None, 0)

ForceMinIdx(sents) == ForceScan(sents, Len(sents) - 1, 0, None, 0)

\* lines 197-198, for a 0-based min_idx with min_idx + 1 < len(sentences)
ForceMergeAt(sents, min_idx) ==
    SubSeq(sents, 1, min_idx)
    \o <<JoinSpace(sents[min_idx + 1], sents[min_idx + 2])>>
    \o SubSeq(sents, min_idx + 3, Len(sents))

\* line 197 raises IndexError when sentences[min_idx + 1] does not exist
ForceMergeRaises(sents, min_idx) == min_idx + 1 >= Len(sents)

\* str.split('\n')
RECURSIVE SplitLinesFrom(_, _)
SplitLinesFrom(s, cur) ==
    IF s = <<>> THEN <<cur>>
    ELSE IF Head(s) = "\n" THEN <<cur>> \o SplitLinesFrom(Tail(s), <<>>)
    ELSE SplitLinesFrom(Tail(s), Append(cur, Head(s)))

\* lines 234-235: text.strip().split('\n')
TextLines(text) == SplitLinesFrom(Strip(text), <<>>)

\* lines 238-240: lines + [''] * (max_lines - len(lines))
Padded(lines, max_lines) ==
    lines \o [i \in 1..(max_lines - Len(lines)) |-> <<>>]

\* mutant: the one-sided branch runs a merge pass over its sentences
OneSidedSentences_Merged(line, lang, minw) ==
    merge_short_sentences(segment_text(line, lang), minw)

\* lines 256-259 and 263-266: the sentences of the non-empty side
OneSidedSentences(line, lang, minw) == segment_text(line, lang)

\* the placeholders of the empty side
Placeholders(sents) == [i \in 1..Len(sents) |-> <<>>]

\* mutant: the target is the larger count
Target_Max(f, t) == Max(Len(f), Len(t))

\* mutant: the target is the foreign side's count
Target_Foreign(f, t) == Len(f)

\* lines 290-292
Target(f, t) ==
    IF Min(Len(f), Len(t)) = 0 THEN Max(Len(f), Len(t)) ELSE Min(Len(f), Len(t))


(* Inputs *)

\* foreign lines: "", "Ba.", "Ba. Ba a.", "Ba. Ab ab. B<u3002>B"
FLinePool ==
    { <<>>,
      <<"B", "a", ".">>,
      <<"B", "a", ".", " ", "B", "a", " ", "a", ".">>,
      <<"B", "a", ".", " ", "A", "b", " ", "a", "b", ".", " ", "B", "u3002", "B">> }

\* translation lines: " ", "Ba a.", "Ab! ab. Ab ab? Ba."
TLinePool ==
    { <<" ">>,
      <<"B", "a", " ", "a", ".">>,
      <<"A", "b", "!", " ", "a", "b", ".", " ", "A", "b", " ", "a", "b", "?", " ", "B", "a", ".">> }

ForeignLangs == {"de", "zh"}
TranslationLangs == {"en"}

\* '\n'.join(lines)
RECURSIVE JoinLines(_)
JoinLines(lines) ==
    IF lines = <<>> THEN <<>>
    ELSE IF Len(lines) = 1 THEN lines[1]
    ELSE lines[1] \o <<"\n">> \o JoinLines(Tail(lines))

Texts(pool) == { JoinLines(ls) : ls \in SeqsUpTo(pool, MaxLines) }

IdleA ==
    /\ sentences = <<>> /\ transcript_words = <<>>
    /\ similarity_threshold = DefaultThreshold
    /\ sent_idx = 0 /\ current_trans_idx = 0
    /\ timings = <<>> /\ windows = <<>> /\ cursors = <<>>
    /\ retA = <<>> /\ pcA = "idle"

InitSeg ==
    /\ foreign_text \in Texts(FLinePool)
    /\ translation_text \in Texts(TLinePool)
    /\ foreign_lang \in ForeignLangs
    /\ translation_lang \in TranslationLangs
    /\ min_words \in 0..MaxMinWords
    /\ foreign_lines = <<>> /\ trans_lines = <<>> /\ line_idx = 0
    /\ f_sents = <<>> /\ t_sents = <<>> /\ prev_f_count = 0 /\ prev_t_count = 0
    /\ target = 0 /\ all_foreign = <<>> /\ all_trans = <<>>
    /\ seg_f = <<>> /\ seg_t = <<>> /\ passes_f = 0 /\ passes_t = 0
    /\ retS = <<>> /\ pcS = "call"
    /\ IdleA /\ IdleF

\* the stripped lines of the current line pair (lines 246-247)
FLine == Strip(foreign_lines[line_idx])
TLine == Strip(trans_lines[line_idx])

(* segment_parallel, lines 234-243 *)
SPCall ==
    /\ pcS = "call"
    /\ foreign_lines' = Padded(TextLines(foreign_text),
                               Max(Len(TextLines(foreign_text)),
                                   Len(TextLines(translation_text))))
    /\ trans_lines' = Padded(TextLines(translation_text),
                             Max(Len(TextLines(foreign_text)),
                                 Len(TextLines(translation_text))))
    /\ all_foreign' = <<>> /\ all_trans' = <<>>
    /\ line_idx' = 1
    /\ pcS' = "line"
    /\ UNCHANGED <<foreign_text, translation_text, foreign_lang, translation_lang,
                   min_words, f_sents, t_sents, prev_f_count, prev_t_count, target,
                   seg_f, seg_t, passes_f, passes_t, retS>>
    /\ UNCHANGED <<varsA, varsF>>

(* lines 250-251: both lines empty *)
SPSkipLine ==
    /\ pcS = "line" /\ line_idx <= Len(foreign_lines)
    /\ FLine = <<>> /\ TLine = <<>>
    /\ line_idx' = line_idx + 1
    /\ UNCHANGED <<foreign_text, translation_text, foreign_lang, translation_lang,
                   min_words, foreign_lines, trans_lines, f_sents, t_sents,
                   prev_f_count, prev_t_count, target, all_foreign, all_trans,
                   seg_f, seg_t, passes_f, passes_t, retS, pcS>>
    /\ UNCHANGED <<varsA, varsF>>

\* lines 257-259: the new all_foreign, all_trans for translation sentences sents
EmitForeignEmpty(sents) ==
    /\ t_sents' = sents
    /\ all_foreign' = all_foreign \o Placeholders(sents)
    /\ all_trans' = all_trans \o sents

(* lines 254-260: the foreign line is empty *)
SPForeignEmpty ==
    /\ pcS = "line" /\ line_idx <= Len(foreign_lines)
    /\ FLine = <<>> /\ TLine # <<>>
    /\ EmitForeignEmpty(OneSidedSentences(TLine, translation_lang, min_words))
    /\ line_idx' = line_idx + 1
    /\ UNCHANGED <<foreign_text, translation_text, foreign_lang, translation_lang,
                   min_words, foreign_lines, trans_lines, f_sents,
                   prev_f_count, prev_t_count, target,
                   seg_f, seg_t, passes_f, passes_t, retS, pcS>>
    /\ UNCHANGED <<varsA, varsF>>

\* lines 264-266: the new all_foreign, all_trans for foreign sentences sents
EmitTransEmpty(sents) ==
    /\ f_sents' = sents
    /\ all_foreign' = all_foreign \o sents
    /\ all_trans' = all_trans \o Placeholders(sents)

(* lines 261-267: the translation line is empty *)
SPTransEmpty ==
    /\ pcS = "line" /\ line_idx <= Len(foreign_lines)
    /\ FLine # <<>> /\ TLine = <<>>
    /\ EmitTransEmpty(OneSidedSentences(FLine, foreign_lang, min_words))
    /\ line_idx' = line_idx + 1
    /\ UNCHANGED <<foreign_text, translation_text, foreign_lang, translation_lang,
                   min_words, foreign_lines, trans_lines, t_sents,
                   prev_f_count, prev_t_count, target,
                   seg_f, seg_t, passes_f, passes_t, retS, pcS>>
    /\ UNCHANGED <<varsA, varsF>>

\* lines 270-271, with the record of what segment_text returned
SegmentedBoth(f, t) ==
    /\ f_sents' = f /\ seg_f' = f
    /\ t_sents' = t /\ seg_t' = t

(* lines 270-274: both lines are non-empty *)
SPSegmentBoth ==
    /\ pcS = "line" /\ line_idx <= Len(foreign_lines)
    /\ FLine # <<>> /\ TLine # <<>>
    /\ SegmentedBoth(segment_text(FLine, foreign_lang),
                     segment_text(TLine, translation_lang))
    /\ prev_f_count' = -1
    /\ passes_f' = 0 /\ passes_t' = 0
    /\ pcS' = "mergeF"
    /\ UNCHANGED <<foreign_text, translation_text, foreign_lang, translation_lang,
                   min_words, foreign_lines, trans_lines, line_idx,
                   prev_t_count, target, all_foreign, all_trans, retS>>
    /\ UNCHANGED <<varsA, varsF>>

(* lines 275-282: one test of the foreign merge loop, and its body *)
SPMergeF ==
    /\ pcS = "mergeF"
    /\ IF Len(f_sents) > Len(t_sents) /\ Len(f_sents) > 1
          /\ Len(f_sents) # prev_f_count
       THEN /\ prev_f_count' = Len(f_sents)
            /\ f_sents' = merge_short_sentences(f_sents, min_words)
            /\ passes_f' = passes_f + 1
            /\ UNCHANGED <<prev_t_count, pcS>>
       ELSE /\ prev_t_count' = -1
            /\ pcS' = "mergeT"
            /\ UNCHANGED <<prev_f_count, f_sents, passes_f>>
    /\ UNCHANGED <<foreign_text, translation_text, foreign_lang, translation_lang,
                   min_words, foreign_lines, trans_lines, line_idx, t_sents,
                   target, all_foreign, all_trans, seg_f, seg_t, passes_t, retS>>
    /\ UNCHANGED <<varsA, varsF>>

(* lines 283-292: one test of the translation merge loop, and its body; on leaving
   the loop, the force-merge target *)
SPMergeT ==
    /\ pcS = "mergeT"
    /\ IF Len(t_sents) > Len(f_sents) /\ Len(t_sents) > 1
          /\ Len(t_sents) # prev_t_count
       THEN /\ prev_t_count' = Len(t_sents)
            /\ t_sents' = merge_short_sentences(t_sents, min_words)
            /\ passes_t' = passes_t + 1
            /\ UNCHANGED <<target, pcS>>
       ELSE /\ target' = Target(f_sents, t_sents)
            /\ pcS' = "forceF"
            /\ UNCHANGED <<prev_t_count, t_sents, passes_t>>
    /\ UNCHANGED <<foreign_text, translation_text, foreign_lang, translation_lang,
                   min_words, foreign_lines, trans_lines, line_idx, f_sents,
                   prev_f_count, all_foreign, all_trans, seg_f, seg_t, passes_f, retS>>
    /\ UNCHANGED <<varsA, varsF>>

(* line 294: _force_merge_to_count(f_sents, target), one test of its while loop
   (lines 180-198) and its body *)
SPForceF ==
    /\ pcS = "forceF"
    /\ IF Len(f_sents) > target
       THEN IF ForceMergeRaises(f_sents, ForceMinIdx(f_sents))
            THEN pcS' = "raised" /\ UNCHANGED f_sents
            ELSE f_sents' = ForceMergeAt(f_sents, ForceMinIdx(f_sents))
                 /\ UNCHANGED pcS
       ELSE pcS' = "forceT" /\ UNCHANGED f_sents
    /\ UNCHANGED <<foreign_text, translation_text, foreign_lang, translation_lang,
                   min_words, foreign_lines, trans_lines, line_idx, t_sents,
                   prev_f_count, prev_t_count, target, all_foreign, all_trans,
                   seg_f, seg_t, passes_f, passes_t, retS>>
    /\ UNCHANGED <<varsA, varsF>>

(* line 295: _force_merge_to_count(t_sents, target), likewise *)
SPForceT ==
    /\ pcS = "forceT"
    /\ IF Len(t_sents) > target
       THEN IF ForceMergeRaises(t_sents, ForceMinIdx(t_sents))
            THEN pcS' = "raised" /\ UNCHANGED t_sents
            ELSE t_sents' = ForceMergeAt(t_sents, ForceMinIdx(t_sents))
                 /\ UNCHANGED pcS
       ELSE pcS' = "extend" /\ UNCHANGED t_sents
    /\ UNCHANGED <<foreign_text, translation_text, foreign_lang, translation_lang,
                   min_words, foreign_lines, trans_lines, line_idx, f_sents,
                   prev_f_count, prev_t_count, target, all_foreign, all_trans,
                   seg_f, seg_t, passes_f, passes_t, retS>>
    /\ UNCHANGED <<varsA, varsF>>

(* lines 297-298 *)
SPExtend ==
    /\ pcS = "extend"
    /\ all_foreign' = all_foreign \o f_sents
    /\ all_trans' = all_trans \o t_sents
    /\ line_idx' = line_idx + 1
    /\ pcS' = "line"
    /\ UNCHANGED <<foreign_text, translation_text, foreign_lang, translation_lang,
                   min_words, foreign_lines, trans_lines, f_sents, t_sents,
                   prev_f_count, prev_t_count, target,
                   seg_f, seg_t, passes_f, passes_t, retS>>
    /\ UNCHANGED <<varsA, varsF>>

(* line 300 *)
SPReturn ==
    /\ pcS = "line" /\ line_idx > Len(foreign_lines)
    /\ retS' = <<all_foreign, all_trans>>
    /\ pcS' = "done"
    /\ UNCHANGED <<foreign_text, translation_text, foreign_lang, translation_lang,
                   min_words, foreign_lines, trans_lines, line_idx, f_sents, t_sents,
                   prev_f_count, prev_t_count, target, all_foreign, all_trans,
                   seg_f, seg_t, passes_f, passes_t>>
    /\ UNCHANGED <<varsA, varsF>>

NextSeg ==
    \/ SPCall
    \/ SPSkipLine
    \/ SPForeignEmpty
    \/ SPTransEmpty
    \/ SPSegmentBoth
    \/ SPMergeF
    \/ SPMergeT
    \/ SPForceF
    \/ SPForceT
    \/ SPExtend
    \/ SPReturn

SpecSeg == InitSeg /\ [][NextSeg]_vars

----------------------------------------------------------------------------
(* Properties of segment_parallel *)

\* C3: segment_parallel returns two lists of equal length, and every line pair
\* appends the same number of entries to both lists (the lists are equally long
\* whenever a line pair has been dealt with).
C3_EqualLengths ==
    /\ pcS = "line" => Len(all_foreign) = Len(all_trans)
    /\ pcS = "done" => /\ Len(retS[1]) = Len(retS[2])
                       /\ retS = <<all_foreign, all_trans>>

C3_Witness ==
    /\ pcS = "done"
    /\ Len(retS[1]) >= 2
    /\ Len(seg_f) > Len(seg_t) + 1
    /\ \E k \in 1..Len(retS[1]) : retS[1][k] = <<>> /\ retS[2][k] # <<>>

\* the position of segment_parallel as a tuple that every step makes smaller in
\* the lexicographic order: before the split; then the lines left, the phase of the
\* current line pair, and the size of the list the current loop works on
Phase ==
    CASE pcS = "line" -> 6
      [] pcS = "mergeF" -> 5
      [] pcS = "mergeT" -> 4
      [] pcS = "forceF" -> 3
      [] pcS = "forceT" -> 2
      [] pcS = "extend" -> 1
      [] OTHER -> 0
LoopSize ==
    CASE pcS = "mergeF" ->
             2 * Len(f_sents) + (IF prev_f_count # Len(f_sents) THEN 1 ELSE 0)
      [] pcS = "mergeT" ->
             2 * Len(t_sents) + (IF prev_t_count # Len(t_sents) THEN 1 ELSE 0)
      [] pcS = "forceF" -> Len(f_sents)
      [] pcS = "forceT" -> Len(t_sents)
      [] OTHER -> 0
Rank ==
    IF pcS = "call" THEN <<1, 0, 0, 0>>
    ELSE IF pcS \in {"done", "raised", "idle"} THEN <<0, 0, 0, 0>>
    ELSE <<0, Len(foreign_lines) + 1 - line_idx, Phase, LoopSize>>
LexLess(a, b) ==
    \E k \in 1..4 : a[k] < b[k] /\ \A j \in 1..(k - 1) : a[j] = b[j]

\* C9: segment_parallel terminates and never raises: no step raises, every step
\* that is not the return leads to a position from which a further step is taken,
\* every step lowers a rank of natural numbers (so only finitely many steps are
\* taken), a merge loop that has run a pass without changing the sentence count is
\* left at its next test, and a force-merge iteration shortens its list by one.
C9_Terminates ==
    /\ [](pcS # "raised")
    /\ [](\A k \in 1..4 : Rank[k] >= 0)
    /\ [][LexLess(Rank', Rank)]_vars
    /\ [][(pcS = "mergeF" /\ prev_f_count = Len(f_sents)) => pcS' = "mergeT"]_vars
    /\ [][(pcS = "mergeT" /\ prev_t_count = Len(t_sents)) => pcS' = "forceF"]_vars
    /\ [][(pcS = "forceF" /\ pcS' = "forceF") => Len(f_sents') = Len(f_sents) - 1]_vars
    /\ [][(pcS = "forceT" /\ pcS' = "forceT") => Len(t_sents') = Len(t_sents) - 1]_vars

\* every sentence of the foreign side has fewer than min_words words, a merge pass
\* has run, and the call has returned
C9_Witness ==
    /\ pcS = "done"
    /\ Len(seg_f) >= 3
    /\ \A k \in 1..Len(seg_f) : WordCount(seg_f[k]) < min_words
    /\ passes_f >= 1

\* a merge pass that changed nothing has ended its loop and a force merge is
\* shortening the list
C9_ForceWitness ==
    /\ pcS = "forceF"
    /\ passes_f >= 2
    /\ Len(f_sents) < Len(seg_f)
    /\ Len(f_sents) > target

\* C10: a line pair of two empty lines contributes nothing; a line pair with exactly
\* one empty line contributes segment_text's sentences of the other line, unmerged
\* and in order, each paired with the empty string, and no merge is applied.
C10_OneSidedLines ==
    [][(pcS = "line" /\ line_idx <= Len(foreign_lines)) =>
          /\ (FLine = <<>> /\ TLine = <<>>) =>
                 /\ all_foreign' = all_foreign /\ all_trans' = all_trans
                 /\ pcS' = "line"
          /\ (FLine = <<>> /\ TLine # <<>>) =>
                 /\ all_trans' = all_trans \o segment_text(TLine, translation_lang)
                 /\ Len(all_foreign') = Len(all_trans')
                 /\ \A k \in (Len(all_foreign) + 1)..Len(all_foreign') :
                        all_foreign'[k] = <<>>
                 /\ SubSeq(all_foreign', 1, Len(all_foreign)) = all_foreign
                 /\ pcS' = "line"
          /\ (FLine # <<>> /\ TLine = <<>>) =>
                 /\ all_foreign' = all_foreign \o segment_text(FLine, foreign_lang)
                 /\ Len(all_trans') = Len(all_foreign')
                 /\ \A k \in (Len(all_trans) + 1)..Len(all_trans') :
                        all_trans'[k] = <<>>
                 /\ SubSeq(all_trans', 1, Len(all_trans)) = all_trans
                 /\ pcS' = "line"
      ]_vars

\* a one-sided line has contributed several sentences, one of them shorter than
\* min_words and not the last
C10_Witness ==
    /\ pcS = "line"
    /\ \E k \in 1..(Len(all_trans) - 1) :
           /\ all_foreign[k] = <<>> /\ all_foreign[k + 1] = <<>>
           /\ all_trans[k] # <<>> /\ all_trans[k + 1] # <<>>
           /\ WordCount(all_trans[k]) < min_words

\* C11: for a line pair of two non-empty lines the number of pairs emitted is
\* min(lenA, lenB), the two sides' sentence counts after the merge passes; it is at
\* least 1 and at most the smaller of the two counts segment_text returned.
C11_PairsPerLine ==
    /\ [][(pcS = "mergeT" /\ pcS' = "forceF") =>
              /\ target' = Min(Len(f_sents), Len(t_sents))
              /\ target' >= 1
              /\ target' <= Min(Len(seg_f), Len(seg_t))]_vars
    /\ [][(pcS \in {"forceF", "forceT"}) => target' = target]_vars
    /\ [][(pcS = "extend") =>
              /\ Len(all_foreign') = Len(all_foreign) + target
              /\ Len(all_trans') = Len(all_trans) + target]_vars

\* three foreign sentences against one translation sentence have given one pair
C11_Witness ==
    /\ pcS = "line" /\ line_idx = 2
    /\ Len(seg_f) = 3 /\ Len(seg_t) = 1
    /\ target = 1
    /\ Len(all_foreign) = 1 /\ Len(all_trans) = 1

----------------------------------------------------------------------------
(* One call of segment_text *)

\* the characters of the texts: a capital, a lower-case letter ("Dr" is an English
\* abbreviation), space and newline, and an ASCII and a CJK sentence ending
TextAlphabet == {"D", "r", " ", "\n", ".", "u3002"}

\* language tags: abbreviations (en), the CJK split (zh), both kinds of endings with
\* the Western split (ko), and a tag that SENTENCE_ENDINGS does not have
TextLangs == {"en", "zh", "ko", "xx"}

InitSegmentText ==
    /\ fn_args \in [text : SeqsUpTo(TextAlphabet, MaxTextLen), lang : TextLangs]
    /\ fn_local = <<>> /\ fn_ret = <<>> /\ pcF = "call"
    /\ IdleA /\ IdleS

CallSegmentText ==
    /\ pcF = "call"
    /\ fn_ret' = segment_text(fn_args.text, fn_args.lang)
    /\ pcF' = "done"
    /\ UNCHANGED <<fn_args, fn_local, varsA, varsS>>

SpecSegmentText == InitSegmentText /\ [][CallSegmentText]_vars

\* C12: segment_text returns a list for every text and language tag; the list is
\* empty exactly when the text is empty or only whitespace, and every sentence in
\* it is non-empty and has no leading or trailing whitespace.
C12_SegmentTextTotal ==
    pcF = "done" =>
        /\ fn_ret \in Seq(Seq(TextAlphabet))
        /\ (fn_ret = <<>>) <=> (\A i \in 1..Len(fn_args.text) : IsSpace(fn_args.text[i]))
        /\ \A k \in 1..Len(fn_ret) :
               /\ fn_ret[k] # <<>>
               /\ ~IsSpace(fn_ret[k][1])
               /\ ~IsSpace(fn_ret[k][Len(fn_ret[k])])

\* a text with surrounding whitespace has been split into two sentences
C12_Witness ==
    /\ pcF = "done"
    /\ Len(fn_ret) = 2
    /\ IsSpace(fn_args.text[1])

\* a text of whitespace only has given the empty list
C12_EmptyWitness ==
    /\ pcF = "done"
    /\ fn_ret = <<>> /\ Len(fn_args.text) = MaxTextLen

----------------------------------------------------------------------------
(* align_transcript_to_text on transcripts that break the precondition *)

\* some word ends before it starts, or the words are not ordered by start time
PreconditionViolated ==
    \/ \E i \in 1..Len(transcript_words) :
           transcript_words[i].end < transcript_words[i].start
    \/ \E i \in 1..(Len(transcript_words) - 1) :
           transcript_words[i + 1].start < transcript_words[i].start

\* C13: a call whose transcript has a word with end < start, or words not ordered
\* by non-decreasing start time, ends in a validation error: it never returns a
\* list of timings.
C13_RejectsInvalid == (pcA # "idle" /\ PreconditionViolated) => pcA # "done"

----------------------------------------------------------------------------
(* One call of word_similarity *)

\* the characters of the words: letters of both cases and the apostrophe, which
\* tokenize_for_alignment keeps and normalize_for_comparison removes
WordAlphabet == {"a", "b", "B", "'"}
Words == SeqsUpTo(WordAlphabet, MaxWordLen)

InitSimilarity ==
    /\ fn_args \in [word1 : Words, word2 : Words]
    /\ fn_local = <<>> /\ fn_ret = <<>> /\ pcF = "call"
    /\ IdleA /\ IdleS

CallWordSimilarity ==
    /\ pcF = "call"
    /\ fn_ret' = word_similarity(fn_args.word1, fn_args.word2)
    /\ pcF' = "done"
    /\ UNCHANGED <<fn_args, fn_local, varsA, varsS>>

SpecSimilarity == InitSimilarity /\ [][CallWordSimilarity]_vars

\* the normalized forms of the two arguments
Norm1 == normalize_for_comparison(fn_args.word1)
Norm2 == normalize_for_comparison(fn_args.word2)

\* C14: word_similarity is symmetric, lies in [0, 1], is 0.0 whenever a normalized
\* form is empty, is 1.0 only when the two normalized forms are identical, and
\* otherwise is 1 - editDistance / max(len(a'), len(b')) of the normalized forms.
C14_SimilarityContract ==
    pcF = "done" =>
        /\ fn_ret = word_similarity(fn_args.word2, fn_args.word1)
        /\ RLeq(Zero, fn_ret) /\ RLeq(fn_ret, One)
        /\ (Norm1 = <<>> \/ Norm2 = <<>>) => fn_ret = Zero
        /\ fn_ret = One => Norm1 = Norm2
        /\ (Norm1 # <<>> /\ Norm2 # <<>>) =>
               fn_ret.n * Max(Len(Norm1), Len(Norm2)) =
                   (Max(Len(Norm1), Len(Norm2)) - Levenshtein(Norm1, Norm2)) * fn_ret.d

\* two words of different lengths whose normalized forms differ and share a letter
C14_Witness ==
    /\ pcF = "done"
    /\ Len(Norm1) = 1 /\ Len(Norm2) = 3
    /\ RLess(Zero, fn_ret) /\ RLess(fn_ret, One)
    /\ fn_args.word1 # Norm1

\* the arguments are norm(x), norm(x) for a non-empty string x
SameNormalizedToken ==
    \E x \in Words \ {<<>>} :
        /\ fn_args.word1 = normalize_for_comparison(x)
        /\ fn_args.word2 = normalize_for_comparison(x)

\* C15 as stated: for every non-empty token x, one of punctuation only included,
\* similarity(norm(x), norm(x)) = 1.0.
C15_AsStated == (pcF = "done" /\ SameNormalizedToken) => fn_ret = One

\* C15, amended: for every token x whose normalized form is not empty,
\* similarity(norm(x), norm(x)) = 1.0; for a token whose normalized form is empty
\* (punctuation only) it is 0.0.
C15_SelfSimilarity ==
    (pcF = "done" /\ SameNormalizedToken) =>
        /\ fn_args.word1 # <<>> => fn_ret = One
        /\ fn_args.word1 = <<>> => fn_ret = Zero

\* norm(x), norm(x) for an x of mixed case and an apostrophe, such as "B'a"
C15_Witness ==
    /\ pcF = "done" /\ fn_ret = One
    /\ \E x \in Words :
           /\ Len(x) = 3 /\ normalize_for_comparison(x) # x
           /\ Len(normalize_for_comparison(x)) = 2
           /\ fn_args.word1 = normalize_for_comparison(x)
           /\ fn_args.word2 = normalize_for_comparison(x)

----------------------------------------------------------------------------
(* One call of find_best_window *)

\* sentences of 1, 2 and 4 tokens
WindowSentences == { <<<<"a">>>>, <<<<"a">>, <<"b">>>>,
                     <<<<"a">>, <<"b">>, <<"a">>, <<"b">>>> }

\* k filler words "o"
Filler(k) == [i \in 1..k |-> <<"o">>]

\* transcripts: filler words, then up to MaxCore words out of "a", "b", "o"
WindowWordLists ==
    { Filler(k) \o core :
          k \in 0..MaxLead, core \in SeqsUpTo({<<"a">>, <<"b">>, <<"o">>}, MaxCore) }

\* the word dicts of a word list, the times being sorted and disjoint
Timed(ws) ==
    [i \in 1..Len(ws) |->
        [word |-> ws[i], start |-> WordStart("seq", i - 1, Len(ws)),
         end |-> WordEnd("seq", i - 1, Len(ws))]]

InitWindow ==
    /\ fn_args \in [sent_words : WindowSentences,
                    transcript_words : { Timed(ws) : ws \in WindowWordLists },
                    start_from : 0..MaxStartFrom]
    /\ fn_local = <<>> /\ fn_ret = <<>> /\ pcF = "call"
    /\ IdleA /\ IdleS

CallFindBestWindow ==
    /\ pcF = "call"
    /\ fn_ret' = find_best_window(fn_args.sent_words,
                                  TransWords(fn_args.transcript_words),
                                  fn_args.transcript_words, fn_args.start_from)
    /\ pcF' = "done"
    /\ UNCHANGED <<fn_args, fn_local, varsA, varsS>>

SpecWindow == InitWindow /\ [][CallFindBestWindow]_vars

\* n, M and rangeStart of the call
NSent == Len(fn_args.sent_words)
NTrans == Len(fn_args.transcript_words)
RangeStart == fn_args.start_from
Found == fn_ret.start_idx # None

\* C16 as stated: the start of a returned window is less than
\* min(rangeStart + n + 4, searchBound), searchBound = min(rangeStart + 3n + 10, M).
C16_AsStated ==
    (pcF = "done" /\ Found) =>
        fn_ret.start_idx < Min(RangeStart + NSent + 4, SearchEnd(NSent, NTrans, RangeStart))

\* C16, amended: the start of a returned window is less than
\* min(rangeStart + n + 5, searchBound): the start positions are
\* rangeStart .. min(rangeStart + n + 5, searchBound) - 1.
C16_StartRange ==
    (pcF = "done" /\ Found) =>
        fn_ret.start_idx < Min(RangeStart + NSent + 5, SearchEnd(NSent, NTrans, RangeStart))

\* the window found starts at rangeStart + n + 4, and further words follow it
C16_Witness ==
    /\ pcF = "done" /\ Found
    /\ fn_ret.start_idx = RangeStart + NSent + 4
    /\ fn_ret.end_idx + 1 < NTrans

\* C17: a returned window has rangeStart <= startIdx <= endIdx < M and a length
\* between max(1, n-2) and 2n+2, its times are those of its first and last word, and
\* the result is none when rangeStart >= M.
C17_WindowBounds ==
    pcF = "done" =>
        /\ RangeStart >= NTrans => fn_ret = NoWindow
        /\ Found =>
               /\ RangeStart <= fn_ret.start_idx
               /\ fn_ret.start_idx <= fn_ret.end_idx
               /\ fn_ret.end_idx < NTrans
               /\ Max(1, NSent - 2) <= fn_ret.end_idx - fn_ret.start_idx + 1
               /\ fn_ret.end_idx - fn_ret.start_idx + 1 <= 2 * NSent + 2
               /\ fn_ret.start_ms = ToMs(fn_args.transcript_words[fn_ret.start_idx + 1].start)
               /\ fn_ret.end_ms = ToMs(fn_args.transcript_words[fn_ret.end_idx + 1].end)

\* a search from a later word has found a window longer than the sentence that ends
\* with the last word of the transcript
C17_Witness ==
    /\ pcF = "done" /\ Found
    /\ RangeStart > 0
    /\ fn_ret.start_idx > RangeStart
    /\ fn_ret.end_idx = NTrans - 1
    /\ fn_ret.end_idx - fn_ret.start_idx + 1 > NSent

\* the candidate windows <<start, length>> of the call: the starts of line 152, the
\* lengths of line 154, the end index inside the transcript (line 157)
Candidates ==
    { c \in (RangeStart..(StartStop(NSent, NTrans, RangeStart) - 1))
                \X (Max(1, NSent - 2)..(2 * NSent + 2)) :
          c[1] + c[2] - 1 < NTrans }

\* line 161-162: the score of a candidate
CandidateScore(c) ==
    calculate_alignment_score(fn_args.sent_words,
        SubSeq(TransWords(fn_args.transcript_words), c[1] + 1, c[1] + c[2]))

\* c comes before d in ascending-start then ascending-length order
Earlier(c, d) == c[1] < d[1] \/ (c[1] = d[1] /\ c[2] < d[2])

\* c attains the maximum score, and no candidate before it does
FirstMaximal(c) ==
    \A d \in Candidates :
        /\ RLeq(CandidateScore(d), CandidateScore(c))
        /\ Earlier(d, c) => RLess(CandidateScore(d), CandidateScore(c))

\* C18: the window returned is, among the candidates that attain the maximum score,
\* the one with the smallest start and then the smallest length; none is returned
\* only if there is no candidate or the maximum is below 0.3.
C18_FirstMaximalWins ==
    pcF = "done" =>
        /\ Found =>
               /\ <<fn_ret.start_idx, fn_ret.end_idx - fn_ret.start_idx + 1>> \in Candidates
               /\ FirstMaximal(<<fn_ret.start_idx, fn_ret.end_idx - fn_ret.start_idx + 1>>)
               /\ fn_ret.confidence =
                      CandidateScore(<<fn_ret.start_idx, fn_ret.end_idx - fn_ret.start_idx + 1>>)
        /\ ~Found =>
               \A c \in Candidates : RLess(CandidateScore(c), Rat(3, 10))

\* the window returned ties with a longer window at the same start and with a
\* window at a later start
C18_Witness ==
    /\ pcF = "done" /\ Found
    /\ \E c, d \in Candidates :
           /\ c[1] = fn_ret.start_idx /\ c[2] > fn_ret.end_idx - fn_ret.start_idx + 1
           /\ d[1] > fn_ret.start_idx
           /\ CandidateScore(c) = fn_ret.confidence
           /\ CandidateScore(d) = fn_ret.confidence

----------------------------------------------------------------------------
(* One call of calculate_alignment_score *)

\* words with similarities 0.5 ("a", "ab"), 1/3 ("a", "abb") and 2/3 ("ab", "abb")
ScoreWordPool == { <<"a">>, <<"a", "b">>, <<"a", "b", "b">> }

InitScore ==
    /\ fn_args \in [sent_words : SeqsUpTo(ScoreWordPool, MaxScoreWords),
                    trans_words : SeqsUpTo(ScoreWordPool, MaxScoreWords)]
    /\ fn_local = <<>> /\ fn_ret = <<>> /\ pcF = "call"
    /\ IdleA /\ IdleS

CallAlignmentScore ==
    /\ pcF = "call"
    /\ fn_ret' = calculate_alignment_score(fn_args.sent_words, fn_args.trans_words)
    /\ pcF' = "done"
    /\ UNCHANGED <<fn_args, fn_local, varsA, varsS>>

SpecScore == InitScore /\ [][CallAlignmentScore]_vars

\* the similarity of sentence word k (1-based) and window word i (0-based)
PairSim(k, i) == word_similarity(fn_args.sent_words[k], fn_args.trans_words[i + 1])

\* the window words (0-based) not in used
FreeWords(used) == (0..(Len(fn_args.trans_words) - 1)) \ used

\* p is the window word sentence word k takes when the words in used are taken: the
\* unused word of highest similarity, the lowest index on ties (None: none is left)
IsPick(k, used, p) ==
    IF FreeWords(used) = {} THEN p = None
    ELSE /\ p \in FreeWords(used)
         /\ \A j \in FreeWords(used) :
                \/ RLess(PairSim(k, j), PairSim(k, p))
                \/ (PairSim(k, j) = PairSim(k, p) /\ p <= j)

\* 1.0 when 0.5 <= windowLength / n <= 2.0, else 0.8
PenaltyFor(n, window_len) ==
    IF n <= 2 * window_len /\ window_len <= 2 * n THEN One ELSE Rat(4, 5)

\* (0.5 * matched / n + 0.5 * totalSimilarity / n) * sizePenalty
ScoreFormula(matched, total) ==
    RMul(RAdd(Rat(matched, 2 * Len(fn_args.sent_words)),
              RMul(total, Rat(1, 2 * Len(fn_args.sent_words)))),
         PenaltyFor(Len(fn_args.sent_words), Len(fn_args.trans_words)))

\* the returned score is the one of the greedy matching of the sentence words from k
\* on, in order, when the window words in used are taken and matched words with
\* similarities summing to total have been matched so far: each word takes its
\* pick, and is matched when the pick's similarity is above 0.5
RECURSIVE IsGreedyScore(_, _, _, _)
IsGreedyScore(k, used, matched, total) ==
    IF k > Len(fn_args.sent_words)
    THEN /\ fn_ret = ScoreFormula(matched, total)
         /\ matched <= Min(Len(fn_args.sent_words), Len(fn_args.trans_words))
         /\ matched = Cardinality(used)
    ELSE \E p \in FreeWords(used) \cup {None} :
             /\ IsPick(k, used, p)
             /\ IF p # None /\ RLess(Rat(1, 2), PairSim(k, p))
                THEN IsGreedyScore(k + 1, used \cup {p}, matched + 1,
                                   RAdd(total, PairSim(k, p)))
                ELSE IsGreedyScore(k + 1, used, matched, total)

\* C19: the score is (0.5 * matched / n + 0.5 * totalSimilarity / n) * sizePenalty
\* for the greedy in-order matching in which a window word is used at most once and
\* a match needs a similarity above 0.5; it is 0.0 when the sentence or the window is
\* empty, and it lies in [0, 1].
C19_ScoreFormula ==
    pcF = "done" =>
        /\ (fn_args.sent_words = <<>> \/ fn_args.trans_words = <<>>) => fn_ret = Zero
        /\ RLeq(Zero, fn_ret) /\ RLeq(fn_ret, One)
        /\ (fn_args.sent_words # <<>> /\ fn_args.trans_words # <<>>) =>
               IsGreedyScore(1, {}, 0, Zero)

\* a window more than twice as long as the sentence, one word matched with a
\* similarity below 1 and a pair of similarity exactly 0.5
C19_Witness ==
    /\ pcF = "done"
    /\ Len(fn_args.trans_words) > 2 * Len(fn_args.sent_words)
    /\ RLess(Zero, fn_ret) /\ RLess(fn_ret, Rat(4, 5))
    /\ \E i \in 0..(Len(fn_args.trans_words) - 1) : PairSim(1, i) = Rat(1, 2)

----------------------------------------------------------------------------
(* align_transcript_to_text called with a similarity_threshold *)

\* raw sentences "abb" and "a", raw transcript words "ab" and "a":
\* word_similarity("abb", "ab") is 2/3, word_similarity("a", "ab") is 1/2
ThresholdSentences == { <<"a", "b", "b">>, <<"a">> }
ThresholdWords == { <<"a", "b">>, <<"a">> }

\* similarity_threshold: the default, a stricter value and exact matches only
Thresholds == { DefaultThreshold, Rat(9, 10), One }

InitThreshold ==
    /\ sentences \in SeqsUpTo(ThresholdSentences, MaxSentences)
    /\ transcript_words \in
           { [i \in 1..Len(ws) |->
                 [word |-> ws[i],
                  start |-> WordStart("seq", i - 1, Len(ws)),
                  end |-> WordEnd("seq", i - 1, Len(ws))]] :
             ws \in SeqsUpTo(ThresholdWords, MaxTranscript) }
    /\ similarity_threshold \in Thresholds
    /\ sent_idx = 0 /\ current_trans_idx = 0
    /\ timings = <<>> /\ windows = <<>> /\ cursors = <<>>
    /\ retA = <<>> /\ pcA = "call"
    /\ IdleS /\ IdleF

SpecThreshold == InitThreshold /\ [][NextAlign]_vars

\* the words of the window sentence i was matched to
WindowWords(i) ==
    SubSeq(TransWords(transcript_words), windows[i].start_idx + 1, windows[i].end_idx + 1)

\* the similarities of the pairs that calculate_alignment_score counts as matched,
\* from sentence word k on
RECURSIVE MatchedSims(_, _, _, _)
MatchedSims(sent_words, trans_words, k, acc) ==
    IF k > Len(sent_words) THEN {}
    ELSE \* the singleton binds the scan's result once
         UNION { (IF TakeMatch(acc, best) # acc THEN {best.sim} ELSE {})
                 \cup MatchedSims(sent_words, trans_words, k + 1, TakeMatch(acc, best)) :
                 best \in { ScanWindow(sent_words[k], trans_words, acc.used_trans, 0,
                                       [sim |-> Zero, idx |-> None]) } }

\* C20: similarity_threshold is the minimum similarity for a word match: in the
\* window a sentence was matched to, every pair of a sentence word and a transcript
\* word counted as matched has a similarity of at least similarity_threshold.
C20_ThresholdIsMinimum ==
    \A i \in 1..Len(windows) :
        Matched(i) =>
            \A sim \in MatchedSims(Tokens(i), WindowWords(i), 1,
                                   [total_sim |-> Zero, matched |-> 0, used_trans |-> {}]) :
                RLeq(similarity_threshold, sim)

----------------------------------------------------------------------------
(* Sentence boundaries of segment_text *)

\* the text after whitespace normalization, and the language's terminators
NormText == CollapseWs(Strip(NewlinesToSpace(fn_args.text)))
Terminators == SentenceEndings(fn_args.lang)

\* position p of sentence s is the last character of a run of terminators
RunEndsAt(s, p) ==
    /\ s[p] \in Terminators
    /\ p = Len(s) \/ s[p + 1] \notin Terminators

\* w without its trailing characters of T
RECURSIVE StripTrailing(_, _)
StripTrailing(w, T) ==
    IF w # <<>> /\ w[Len(w)] \in T THEN StripTrailing(SubSeq(w, 1, Len(w) - 1), T) ELSE w

\* the last whitespace-delimited word of acc, lower-cased
LastWord(acc) == Split(Lower(acc))[Len(Split(Lower(acc)))]

\* the text that follows position p of returned sentence i: the rest of the
\* sentence, or the next sentence, or nothing
Following(i, p) ==
    IF p < Len(fn_ret[i]) THEN SubSeq(fn_ret[i], p + 1, Len(fn_ret[i]))
    ELSE IF i < Len(fn_ret) THEN fn_ret[i + 1]
    ELSE <<>>

\* (a) and (b) for the run that ends at position p of returned sentence i, the
\* last word being stripped of the characters of T
BoundaryAllowed(i, p, T) ==
    /\ ~IsAbbrevWord(StripTrailing(LastWord(SubSeq(fn_ret[i], 1, p)), T),
                     Abbreviations(fn_args.lang))
    /\ ~StartsLower(Strip(Following(i, p)))

\* sentences end at the runs that T allows, and nowhere else: a sentence that is
\* not the last one ends with a run, and a run with text after it closes its
\* sentence exactly when (a) and (b) hold
BoundariesBy(T) ==
    \A i \in 1..Len(fn_ret) :
        /\ i < Len(fn_ret) => RunEndsAt(fn_ret[i], Len(fn_ret[i]))
        /\ \A p \in 1..Len(fn_ret[i]) :
               (RunEndsAt(fn_ret[i], p) /\ Following(i, p) # <<>>) =>
                   ((p = Len(fn_ret[i])) <=> BoundaryAllowed(i, p, T))

\* C21: for a language other than zh/ja a sentence ends at a run of terminators
\* if and only if the last word accumulated so far, lower-cased and with the
\* terminator stripped, is neither an abbreviation nor a single letter, and the
\* text after the run does not start with a lower-case letter.
C21_WesternBoundaries ==
    (pcF = "done" /\ fn_args.lang \notin {"zh", "ja"}) => BoundariesBy(Terminators)

\* the same with the last word stripped of ".", "!" and "?" only (line 112)
WesternBoundariesAscii ==
    (pcF = "done" /\ fn_args.lang \notin {"zh", "ja"}) => BoundariesBy(AsciiEndings)

\* the positions of the normalized text where a maximal run of terminators ends
CutSet == { p \in 1..Len(NormText) :
                /\ NormText[p] \in Terminators
                /\ p = Len(NormText) \/ NormText[p + 1] \notin Terminators }

\* the k-th of them (0 for k = 0)
Cut(k) == IF k = 0 THEN 0
          ELSE CHOOSE p \in CutSet : Cardinality({ q \in CutSet : q <= p }) = k

\* the text after the last run
Trailing == SubSeq(NormText, Cut(Cardinality(CutSet)) + 1, Len(NormText))

\* the normalized text cut after every maximal run of terminators, each piece
\* without its surrounding whitespace; the text after the last run is a piece if it
\* is not blank
CutAtRuns ==
    [k \in 1..Cardinality(CutSet) |-> Strip(SubSeq(NormText, Cut(k - 1) + 1, Cut(k)))]
    \o (IF Strip(Trailing) # <<>> THEN <<Strip(Trailing)>> ELSE <<>>)

\* C22: for zh/ja the text is split at every maximal run of terminators and the
\* whole run stays with the sentence it closes: a sentence has at most one run of
\* terminators, at its end, only the last sentence may lack one, and the sentences
\* are the pieces of the text in input order.
C22_CjkRuns ==
    (pcF = "done" /\ fn_args.lang \in {"zh", "ja"}) =>
        /\ \A i \in 1..Len(fn_ret) :
               /\ \A p \in 1..(Len(fn_ret[i]) - 1) :
                      fn_ret[i][p] \in Terminators => fn_ret[i][p + 1] \in Terminators
               /\ i < Len(fn_ret) => fn_ret[i][Len(fn_ret[i])] \in Terminators
        /\ fn_ret = CutAtRuns

\* a run of two terminators has closed the first sentence, and the last sentence
\* has no terminator
C22_Witness ==
    /\ pcF = "done" /\ fn_args.lang \in {"zh", "ja"}
    /\ Len(fn_ret) = 2
    /\ Len(fn_ret[1]) >= 3
    /\ fn_ret[1][Len(fn_ret[1])] \in Terminators
    /\ fn_ret[1][Len(fn_ret[1]) - 1] \in Terminators
    /\ fn_ret[2][Len(fn_ret[2])] \notin Terminators

----------------------------------------------------------------------------
(* One call of merge_short_sentences *)

\* the argument list when the while loop (lines 154-163) ends: line 160 writes to it
RECURSIVE MergeLoopArgument(_, _, _)
MergeLoopArgument(sents, minw, i) ==
    IF i >= Len(sents) THEN sents
    ELSE IF WordCount(sents[i + 1]) < minw /\ i + 1 < Len(sents)
         THEN MergeLoopArgument(
                  [sents EXCEPT ![i + 2] = JoinSpace(sents[i + 1], sents[i + 2])],
                  minw, i + 1)
         ELSE MergeLoopArgument(sents, minw, i + 1)

\* the caller's list after the call
MergedArgument(sents, minw) ==
    IF Len(sents) <= 1 THEN sents ELSE MergeLoopArgument(sents, minw, 0)

\* sentences: "", "a", "b a", "a b b" (0 to 3 words)
MergePool == { <<>>, <<"a">>, <<"b", " ", "a">>, <<"a", " ", "b", " ", "b">> }

InitMerge ==
    /\ fn_args \in [sentences : SeqsUpTo(MergePool, MaxListLen),
                    min_words : 0..MaxMinWords]
    /\ fn_local = <<>> /\ fn_ret = <<>> /\ pcF = "call"
    /\ IdleA /\ IdleS

\* fn_local is the caller's list after the call
CallMergeShortSentences ==
    /\ pcF = "call"
    /\ fn_ret' = merge_short_sentences(fn_args.sentences, fn_args.min_words)
    /\ fn_local' = MergedArgument(fn_args.sentences, fn_args.min_words)
    /\ pcF' = "done"
    /\ UNCHANGED <<fn_args, varsA, varsS>>

SpecMerge == InitMerge /\ [][CallMergeShortSentences]_vars

\* sentences a..b (1-based) of the argument joined with single spaces
RECURSIVE JoinRange(_, _, _)
JoinRange(sents, a, b) ==
    IF a >= b THEN sents[a] ELSE sents[a] \o <<" ">> \o JoinRange(sents, a + 1, b)

\* the number of whitespace-delimited words of s: the positions where one starts
NumWords(s) ==
    Cardinality({ p \in 1..Len(s) : ~IsSpace(s[p]) /\ (p = 1 \/ IsSpace(s[p - 1])) })

\* the largest element of E below b (0 if there is none)
EndBefore(E, b) ==
    IF \E e \in E : e < b THEN CHOOSE e \in E : e < b /\ \A d \in E : d < b => d <= e
    ELSE 0

\* the k-th element of E in ascending order
Nth(E, k) == CHOOSE e \in E : Cardinality({ d \in E : d <= e }) = k

\* E is the set of positions where a sentence of the result ends: the last
\* position, and every position where the sentences taken since the previous end,
\* joined, have min_words words or more
IsMergeEnds(E) ==
    \A b \in 1..Len(fn_args.sentences) :
        b \in E <=>
            \/ b = Len(fn_args.sentences)
            \/ NumWords(JoinRange(fn_args.sentences, EndBefore(E, b) + 1, b))
                   >= fn_args.min_words

\* C23: one pass over two or more sentences prepends, with one space, every
\* non-final sentence of fewer than min_words words (the words merged into it
\* counted) to its successor, left to right; the last sentence is never merged
\* away, so every sentence of the result but the last has min_words words or more;
\* a list of zero or one sentence is returned unchanged.
C23_MergePass ==
    pcF = "done" =>
        /\ Len(fn_args.sentences) <= 1 => fn_ret = fn_args.sentences
        /\ Len(fn_args.sentences) >= 2 =>
               \E E \in SUBSET (1..Len(fn_args.sentences)) :
                   /\ IsMergeEnds(E)
                   /\ fn_ret = [k \in 1..Cardinality(E) |->
                                   JoinRange(fn_args.sentences,
                                             EndBefore(E, Nth(E, k)) + 1, Nth(E, k))]
        /\ \A k \in 1..(Len(fn_ret) - 1) : NumWords(fn_ret[k]) >= fn_args.min_words
        /\ fn_args.sentences # <<>> => fn_ret # <<>>

\* two short sentences in a row have been merged into a third one, and a short
\* last sentence has stayed
C23_Witness ==
    /\ pcF = "done"
    /\ Len(fn_args.sentences) = 4 /\ Len(fn_ret) = 2
    /\ fn_ret[1] = JoinRange(fn_args.sentences, 1, 3)
    /\ NumWords(fn_args.sentences[2]) > 0
    /\ NumWords(fn_ret[2]) < fn_args.min_words

----------------------------------------------------------------------------
(* One call of _force_merge_to_count, step by step *)

\* sentences "a", "b", "ab", "a b": two of the same length, and two longer ones
ForcePool == { <<"a">>, <<"b">>, <<"a", "b">>, <<"a", " ", "b">> }

\* mutant: the loop works on the caller's list
WorkingList_Aliased(sents) == [items |-> sents, shared |-> TRUE]

\* line 184: sentences = sentences.copy(), a list that is not the caller's
WorkingList(sents) == [items |-> sents, shared |-> FALSE]

InitForce ==
    /\ fn_args \in [sentences : SeqsUpTo(ForcePool, MaxListLen), target : 0..MaxTarget]
    /\ fn_local = <<>> /\ fn_ret = <<>> /\ pcF = "call"
    /\ IdleA /\ IdleS

(* lines 180-184 *)
ForceEnter ==
    /\ pcF = "call"
    /\ IF Len(fn_args.sentences) <= fn_args.target
       THEN fn_ret' = fn_args.sentences /\ pcF' = "done" /\ UNCHANGED fn_local
       ELSE fn_local' = WorkingList(fn_args.sentences) /\ pcF' = "loop"
            /\ UNCHANGED fn_ret
    /\ UNCHANGED <<fn_args, varsA, varsS>>

(* lines 187-198: one iteration of the while loop; fn_args.sentences is the
   caller's list, which changes with the working list if the two are one list *)
ForceStep ==
    /\ pcF = "loop"
    /\ Len(fn_local.items) > fn_args.target
    /\ IF ForceMergeRaises(fn_local.items, ForceMinIdx(fn_local.items))
       THEN pcF' = "raised" /\ UNCHANGED <<fn_local, fn_args>>
       ELSE /\ fn_local' = [fn_local EXCEPT
                               !.items = ForceMergeAt(fn_local.items,
                                                      ForceMinIdx(fn_local.items))]
            /\ fn_args' = IF fn_local.shared
                          THEN [fn_args EXCEPT !.sentences = fn_local'.items]
                          ELSE fn_args
            /\ UNCHANGED pcF
    /\ UNCHANGED <<fn_ret, varsA, varsS>>

(* line 200 *)
ForceReturn ==
    /\ pcF = "loop"
    /\ Len(fn_local.items) <= fn_args.target
    /\ fn_ret' = fn_local.items
    /\ pcF' = "done"
    /\ UNCHANGED <<fn_args, fn_local, varsA, varsS>>

NextForce ==
    \/ ForceEnter
    \/ ForceStep
    \/ ForceReturn

SpecForce == InitForce /\ [][NextForce]_vars

\* the list L2 is L with sentence m replaced by itself, a space and its
\* successor, and the successor removed
MergedAt(L, L2, m) ==
    /\ Len(L2) = Len(L) - 1
    /\ L2[m] = L[m] \o <<" ">> \o L[m + 1]
    /\ \A j \in 1..(m - 1) : L2[j] = L[j]
    /\ \A j \in (m + 1)..Len(L2) : L2[j] = L[j + 1]

\* m is the leftmost shortest sentence of L, the last position apart
LeftmostShortest(L, m) ==
    /\ m \in 1..(Len(L) - 1)
    /\ \A j \in 1..(Len(L) - 1) :
           Len(L[m]) < Len(L[j]) \/ (Len(L[m]) = Len(L[j]) /\ m <= j)

C25_ForceTotal ==
    /\ pcF # "raised"
    /\ pcF = "done" =>
           IF Len(fn_args.sentences) > fn_args.target
           THEN Len(fn_ret) = fn_args.target
           ELSE fn_ret = fn_args.sentences

----------------------------------------------------------------------------
(* worker/pipeline.py: process_lesson *)

\* line 208: min_words of segment_parallel when the caller gives none
DefaultMinWords == 2

\* the message of the ValueError of line 49, and any exception of the audio tools
NoSentencesError == "No sentences found in foreign text"
ExternalError == "error raised by an audio tool"

\* lines 124-138, with int((i / n_foreign) * n_trans) computed exactly
map_translations(foreign_sentences, translation_sentences) ==
    IF Len(translation_sentences) = 0
    THEN [i \in 1..Len(foreign_sentences) |-> <<>>]
    ELSE IF Len(foreign_sentences) = Len(translation_sentences)
    THEN translation_sentences
    ELSE [i \in 1..Len(foreign_sentences) |->
             translation_sentences[
                 Min(((i - 1) * Len(translation_sentences)) \div Len(foreign_sentences),
                     Len(translation_sentences) - 1) + 1]]

\* fn_local is the list of the calls made after segmentation, in order
InitLesson ==
    /\ fn_args \in [foreign_text : Texts(FLinePool),
                    translation_text : Texts(TLinePool),
                    foreign_lang : ForeignLangs,
                    translation_lang : TranslationLangs,
                    cached_transcription : BOOLEAN]
    /\ fn_local = <<>> /\ fn_ret = <<>> /\ pcF = "call"
    /\ IdleA /\ IdleS

(* lines 41-43: the call of segment_parallel, which the actions of NextSeg run *)
PLSegment ==
    /\ pcF = "call"
    /\ foreign_text' = fn_args.foreign_text
    /\ translation_text' = fn_args.translation_text
    /\ foreign_lang' = fn_args.foreign_lang
    /\ translation_lang' = fn_args.translation_lang
    /\ min_words' = DefaultMinWords
    /\ pcS' = "call"
    /\ pcF' = "segment"
    /\ UNCHANGED <<foreign_lines, trans_lines, line_idx, f_sents, t_sents,
                   prev_f_count, prev_t_count, target, all_foreign, all_trans,
                   seg_f, seg_t, passes_f, passes_t, retS>>
    /\ UNCHANGED <<fn_args, fn_local, fn_ret, varsA>>

(* lines 48-49: foreign_sentences is retS[1] *)
PLCheck ==
    /\ pcF = "segment" /\ pcS = "done"
    /\ IF retS[1] = <<>>
       THEN pcF' = "raised" /\ fn_ret' = NoSentencesError
       ELSE pcF' = "normalize" /\ UNCHANGED fn_ret
    /\ UNCHANGED <<fn_args, fn_local, varsA, varsS>>

\* a call of an audio tool: it returns, or it raises and process_lesson ends
ExternalCall(name, next) ==
    /\ fn_local' = Append(fn_local, name)
    /\ \E ok \in BOOLEAN :
           IF ok THEN pcF' = next /\ UNCHANGED fn_ret
           ELSE pcF' = "raised" /\ fn_ret' = ExternalError

(* lines 53-55 *)
PLNormalize ==
    /\ pcF = "normalize"
    /\ ExternalCall("normalize_audio", "transcribe")
    /\ UNCHANGED <<fn_args, varsA, varsS>>

(* lines 58-64: the cached transcription is used, or the audio is transcribed *)
PLTranscribe ==
    /\ pcF = "transcribe"
    /\ IF fn_args.cached_transcription
       THEN pcF' = "align" /\ UNCHANGED <<fn_local, fn_ret>>
       ELSE ExternalCall("transcribe_audio", "align")
    /\ UNCHANGED <<fn_args, varsA, varsS>>

(* lines 73-76: the call is recorded; SpecAlign models what it computes *)
PLAlign ==
    /\ pcF = "align"
    /\ fn_local' = Append(fn_local, "align_transcript_to_text")
    /\ pcF' = "slice"
    /\ UNCHANGED <<fn_args, fn_ret, varsA, varsS>>

(* lines 80-83 *)
PLSlice ==
    /\ pcF = "slice"
    /\ ExternalCall("slice_audio", "build")
    /\ UNCHANGED <<fn_args, varsA, varsS>>

(* lines 87-109: one record per foreign sentence, with its translation *)
PLReturn ==
    /\ pcF = "build"
    /\ fn_ret' = [i \in 1..Len(retS[1]) |->
                     [idx |-> i - 1,
                      foreignText |-> retS[1][i],
                      translationText |-> map_translations(retS[1], retS[2])[i]]]
    /\ pcF' = "done"
    /\ UNCHANGED <<fn_args, fn_local, varsA, varsS>>

NextLesson ==
    \/ PLSegment
    \/ NextSeg
    \/ PLCheck
    \/ PLNormalize
    \/ PLTranscribe
    \/ PLAlign
    \/ PLSlice
    \/ PLReturn

SpecLesson == InitLesson /\ [][NextLesson]_vars

\* the foreign text is empty or whitespace only
ForeignBlank ==
    \A i \in 1..Len(fn_args.foreign_text) : IsSpace(fn_args.foreign_text[i])

\* C26: when the foreign text has no sentence, process_lesson raises
\* ValueError('No sentences found in foreign text') whatever the translation
\* text is, before normalize_audio, transcription, alignment or slicing is called.
C26_NoForeignSentences ==
    (pcF \notin {"idle", "call", "segment"} /\ ForeignBlank) =>
        /\ pcF = "raised"
        /\ fn_ret = NoSentencesError
        /\ fn_local = <<>>


(***************************************************************************)
(* worker/handlers/base.py: JobHandler.handle, one step per call it makes. *)
(* fn_args holds the job id and what the subclass and the network do:      *)
(* whether validate and process return or raise (and with which text),     *)
(* what process returns, and whether the HTTP post succeeds.  fn_local     *)
(* holds the calls made so far, the status reports issued so far and the   *)
(* exception being handled.                                                *)
(***************************************************************************)
JobIds == {"j1", "j2"}
ExcTexts == {"", "No lesson data in job"}
Returns == [raises : {FALSE}, text : {""}]
Raises == [raises : {TRUE}, text : ExcTexts]

(* What process may hand back: a dict with the known key, a dict with only *)
(* other keys, an empty dict, or (the abstract process body ends in pass)  *)
(* None.                                                                   *)
ProcessResults == {"sentences", "other", "empty", "none"}
NoPopError == "'NoneType' object has no attribute 'pop'"

(* api.py lines 114-151: the payload is built, then the post and           *)
(* raise_for_status run inside try; every Exception is logged and turned   *)
(* into False.                                                             *)
report_job_status_Unguarded(post) == [raised |-> post = "error", ok |-> post = "ok"]
report_job_status(post) == [raised |-> FALSE, ok |-> post = "ok"]

Report(status, error, result) ==
    [job_id |-> fn_args.id, status |-> status, error |-> error, result |-> result]

InitHandle ==
    /\ fn_args \in [id : JobIds, validate : Returns \cup Raises,
                    process : Returns \cup Raises, result : ProcessResults,
                    post : {"ok", "error"}]
    /\ fn_local = [calls |-> <<>>, reports |-> <<>>, exc |-> None]
    /\ fn_ret = <<>> /\ pcF = "call"
    /\ IdleA /\ IdleS

(* line 88 *)
HandleValidate ==
    /\ pcF = "call"
    /\ fn_local' = [fn_local EXCEPT !.calls = Append(@, "validate"),
                                    !.exc = IF fn_args.validate.raises
                                            THEN fn_args.validate.text ELSE None]
    /\ pcF' = IF fn_args.validate.raises THEN "except" ELSE "process"
    /\ UNCHANGED <<fn_args, fn_ret, varsA, varsS>>

(* line 89 *)
HandleProcess ==
    /\ pcF = "process"
    /\ fn_local' = [fn_local EXCEPT !.calls = Append(@, "process"),
                                    !.exc = IF fn_args.process.raises
                                            THEN fn_args.process.text ELSE None]
    /\ pcF' = IF fn_args.process.raises THEN "except" ELSE "complete"
    /\ UNCHANGED <<fn_args, fn_ret, varsA, varsS>>

(* line 90 with complete, lines 55-68: the two pops raise on a result that *)
(* is no dict, before any report; otherwise one COMPLETED report.          *)
HandleComplete ==
    /\ pcF = "complete"
    /\ IF fn_args.result = "none"
       THEN /\ fn_local' = [fn_local EXCEPT !.calls = Append(@, "complete"),
                                            !.exc = NoPopError]
            /\ pcF' = "except"
       ELSE LET r == report_job_status(fn_args.post) IN
            /\ fn_local' = [fn_local EXCEPT
                   !.calls = Append(@, "complete"),
                   !.reports = Append(@, Report("COMPLETED", None,
                                   IF fn_args.result = "other" THEN "other" ELSE None)),
                   !.exc = IF r.raised THEN "post failed" ELSE None]
            /\ pcF' = IF r.raised THEN "except" ELSE "done"
    /\ UNCHANGED <<fn_args, fn_ret, varsA, varsS>>

(* lines 91-93 with fail, lines 70-77 *)
HandleFail ==
    /\ pcF = "except"
    /\ LET r == report_job_status(fn_args.post) IN
       /\ fn_local' = [fn_local EXCEPT
              !.calls = Append(@, "fail"),
              !.reports = Append(@, Report("FAILED", fn_local.exc, None))]
       /\ pcF' = IF r.raised THEN "raised" ELSE "done"
    /\ UNCHANGED <<fn_args, fn_ret, varsA, varsS>>

NextHandle == HandleValidate \/ HandleProcess \/ HandleComplete \/ HandleFail

SpecHandle == InitHandle /\ [][NextHandle]_vars

HandleOver == pcF \in {"done", "raised"}

HandleSucceeds ==
    /\ ~fn_args.validate.raises
    /\ ~fn_args.process.raises
    /\ fn_args.result # "none"

HandleErrorText ==
    IF fn_args.validate.raises THEN fn_args.validate.text
    ELSE IF fn_args.process.raises THEN fn_args.process.text
    ELSE NoPopError

(* C27: for every job with an id, handle runs validate before process,     *)
(* never runs process when validate raises, issues exactly one status      *)
(* report (COMPLETED when validate and process returned normally and the   *)
(* result could be packaged, otherwise FAILED carrying the exception       *)
(* text), and never propagates an exception of validate, process or the    *)
(* status report.                                                          *)
C27_HandleReportsOnce ==
    /\ pcF # "raised"
    /\ Len(fn_local.reports) <= 1
    /\ \A k \in 1..Len(fn_local.calls) :
          fn_local.calls[k] = "process" =>
              /\ k = 2 /\ fn_local.calls[1] = "validate"
              /\ ~fn_args.validate.raises
    /\ HandleOver =>
          /\ fn_local.calls[1] = "validate"
          /\ Len(fn_local.reports) = 1
          /\ fn_local.reports[1].job_id = fn_args.id
          /\ IF HandleSucceeds
             THEN /\ fn_local.reports[1].status = "COMPLETED"
                  /\ fn_local.reports[1].error = None
             ELSE /\ fn_local.reports[1].status = "FAILED"
                  /\ fn_local.reports[1].error = HandleErrorText

(* A job whose process raised, reported as FAILED over a failing post.     *)
C27_Witness ==
    /\ pcF = "done"
    /\ fn_args.process.raises /\ ~fn_args.validate.raises
    /\ fn_args.post = "error"
    /\ fn_local.calls = <<"validate", "process", "fail">>
    /\ Len(fn_local.reports) = 1 /\ fn_local.reports[1].status = "FAILED"


(***************************************************************************)
(* Balancing keeps the text of a line pair                                 *)
(***************************************************************************)
JoinedText(sents) == IF sents = <<>> THEN <<>> ELSE JoinRange(sents, 1, Len(sents))

Balancing == pcS \in {"mergeF", "mergeT", "forceF", "forceT", "extend"}

RECURSIVE Concatenated(_)
Concatenated(sents) ==
    IF sents = <<>> THEN <<>> ELSE Head(sents) \o Concatenated(Tail(sents))

WithoutWhitespace(s) == SelectSeq(s, LAMBDA c : ~IsSpace(c))

(* C29: in every language branch segment_text preserves content and order: *)
(* the returned sentences concatenated in order, with all whitespace       *)
(* deleted, are the input text with all whitespace deleted.                *)
C29_KeepsContent ==
    pcF = "done" =>
        WithoutWhitespace(Concatenated(fn_ret)) = WithoutWhitespace(fn_args.text)

(* Two sentences were cut out of a text that has a newline in it, in the   *)
(* branch for Chinese and Japanese.                                        *)
C29_Witness ==
    /\ pcF = "done" /\ fn_args.lang \in {"zh", "ja"}
    /\ Len(fn_ret) = 2
    /\ \E i \in 1..Len(fn_args.text) : fn_args.text[i] = "\n"
    /\ \E i \in 1..Len(fn_args.text) : fn_args.text[i] \in Terminators

(* The same in the branch for the other languages.                         *)
C29_WesternWitness ==
    /\ pcF = "done" /\ fn_args.lang \notin {"zh", "ja"}
    /\ Len(fn_ret) = 2
    /\ \E i \in 1..Len(fn_args.text) : fn_args.text[i] = "\n"


(***************************************************************************)
(* merge_short_sentences applied twice                                     *)
(***************************************************************************)
MergedTwice(sents) ==
    merge_short_sentences(merge_short_sentences(sents, min_words), min_words)

(* C30: merge_short_sentences is idempotent for a fixed min_words (applied *)
(* to its own result it returns an identical list), so each of the two     *)
(* merge loops of segment_parallel runs at most two passes: a second pass  *)
(* changes nothing, and the size check or the loop condition then stops    *)
(* the loop.                                                               *)
C30_MergeIdempotent ==
    /\ [](Balancing =>
            /\ MergedTwice(f_sents) = merge_short_sentences(f_sents, min_words)
            /\ MergedTwice(t_sents) = merge_short_sentences(t_sents, min_words)
            /\ MergedTwice(seg_f) = merge_short_sentences(seg_f, min_words)
            /\ MergedTwice(seg_t) = merge_short_sentences(seg_t, min_words))
    /\ [](pcS # "idle" => passes_f <= 2 /\ passes_t <= 2)
    /\ [][(passes_f' = passes_f + 1 /\ passes_f >= 1) => f_sents' = f_sents]_vars
    /\ [][(passes_t' = passes_t + 1 /\ passes_t >= 1) => t_sents' = t_sents]_vars

(* The foreign loop has run a second pass after a first pass that merged   *)
(* sentences.                                                              *)
C30_Witness ==
    /\ pcS = "mergeF" /\ passes_f = 2
    /\ Len(f_sents) < Len(seg_f)
    /\ Len(f_sents) > Len(t_sents)

(* The same on single calls: merging the list a call returned, with the    *)
(* same min_words, gives that list again.                                  *)
MergeIdempotentOnLists ==
    pcF = "done" => merge_short_sentences(fn_ret, fn_args.min_words) = fn_ret


====
